---- MODULE Spec2Model ----
(***************************************************************************)
(* Model of the llm-d routing sidecar: the per-request pipeline            *)
(* mux -> ChatCompletionsHandler -> connector runner -> prefiller proxy    *)
(* handler -> decoder proxy, with the prefiller handler LRU cache, the     *)
(* concurrent callers of that cache, and the process around the server.    *)
(*                                                                         *)
(* Strings are sequences of tokens.  The tokens are the pieces the code    *)
(* distinguishes: the "http://" prefix, IP literals, host names, a ":port" *)
(* suffix, the comma and the blank.                                        *)
(***************************************************************************)
EXTENDS Integers, Sequences, FiniteSets, TLC

(***************************************************************************)
(* Bounds of the model                                                     *)
(***************************************************************************)
MaxRequests == 2

\* the distinct prefiller hosts the concurrent lookups name, and the lookups
\* that name a host again
MaxHosts == 17
MaxRepeats == 1

\* the requests the server of the lifecycle has in flight at once
MaxInflight == 2

(***************************************************************************)
(* Program constants                                                       *)
(***************************************************************************)
CacheCapacity == 16
DefaultBootstrapPort == 8998
StatusBadRequest == 400
StatusBadGateway == 502

\* context.WithTimeout(context.Background(), 60*time.Second) of Start
DrainSeconds == 60

requestHeaderPrefillURL == "x-prefiller-url"
requestHeaderPrefillHostPort == "x-prefiller-host-port"
requestHeaderRequestID == "x-request-id"

ChatCompletionsPath == "/v1/chat/completions"
CompletionsPath == "/v1/completions"

(***************************************************************************)
(* Strings                                                                 *)
(***************************************************************************)
EmptyString == << >>

\* strings.CutPrefix(s, "http://")
CutPrefix(s, p) == IF Len(s) > 0 /\ s[1] = p THEN Tail(s) ELSE s

RECURSIVE Contains(_, _)
Contains(s, tok) ==
    IF s = << >> THEN FALSE
    ELSE IF Head(s) = tok THEN TRUE ELSE Contains(Tail(s), tok)

\* strings.Split(s, sep): the pieces between the occurrences of sep
RECURSIVE SplitAcc(_, _, _)
SplitAcc(s, sep, cur) ==
    IF s = << >> THEN << cur >>
    ELSE IF Head(s) = sep THEN << cur >> \o SplitAcc(Tail(s), sep, << >>)
    ELSE SplitAcc(Tail(s), sep, Append(cur, Head(s)))

Split(s, sep) == SplitAcc(s, sep, << >>)

\* strings.TrimSpace
RECURSIVE TrimLeft(_)
TrimLeft(s) == IF s # << >> /\ Head(s) = " " THEN TrimLeft(Tail(s)) ELSE s

RECURSIVE TrimRight(_)
TrimRight(s) ==
    IF s # << >> /\ s[Len(s)] = " " THEN TrimRight(SubSeq(s, 1, Len(s) - 1)) ELSE s

TrimSpace(s) == TrimRight(TrimLeft(s))

(***************************************************************************)
(* IPv4 addresses and the allowed subnets                                  *)
(***************************************************************************)
RECURSIVE Pow2(_)
Pow2(n) == IF n = 0 THEN 1 ELSE 2 * Pow2(n - 1)

NilIP == << >>

\* the addresses of a pool of prefillers, 10.0.1.1 and up
PoolHosts ==
    << "10.0.1.1", "10.0.1.2", "10.0.1.3", "10.0.1.4", "10.0.1.5", "10.0.1.6",
       "10.0.1.7", "10.0.1.8", "10.0.1.9", "10.0.1.10", "10.0.1.11", "10.0.1.12",
       "10.0.1.13", "10.0.1.14", "10.0.1.15", "10.0.1.16", "10.0.1.17", "10.0.1.18",
       "10.0.1.19", "10.0.1.20" >>

\* the two 16 bit halves of an address
IPHigh(ip) == ip[1] * 256 + ip[2]

IPLow(ip) == ip[3] * 256 + ip[4]

\* the literals net.ParseIP accepts among the tokens of the model; an IPv6
\* literal parses to a 16 byte address, written here as a 16-tuple
IPLiterals ==
    [ tok \in {"10.0.0.5", "10.0.0.6", "8.8.8.8", "::1"}
                 \cup { PoolHosts[i] : i \in 1..Len(PoolHosts) } |->
        CASE tok = "10.0.0.5" -> << 10, 0, 0, 5 >>
          [] tok = "10.0.0.6" -> << 10, 0, 0, 6 >>
          [] tok = "8.8.8.8"  -> << 8, 8, 8, 8 >>
          [] tok = "::1"      -> << 0, 0, 0, 0, 0, 0, 0, 0, 0, 0, 0, 0, 0, 0, 0, 1 >>
          [] OTHER -> << 10, 0, 1, CHOOSE i \in 1..Len(PoolHosts) : PoolHosts[i] = tok >> ]

\* net.ParseIP applied to a whole string: nil unless the string is exactly one literal
ParseIP(s) ==
    IF Len(s) = 1 /\ s[1] \in DOMAIN IPLiterals THEN IPLiterals[s[1]] ELSE NilIP

\* net.IP.To4
To4(ip) == IF Len(ip) = 4 THEN ip ELSE NilIP

cidrStrings ==
    << << << 10, 0, 0, 0 >>, 8 >>,
       << << 172, 16, 0, 0 >>, 12 >>,
       << << 192, 168, 0, 0 >>, 16 >>,
       << << 127, 0, 0, 0 >>, 8 >>,
       << << 169, 254, 0, 0 >>, 16 >>,
       << << 100, 64, 0, 0 >>, 10 >>,
       << << 192, 0, 0, 0 >>, 24 >>,
       << << 192, 0, 2, 0 >>, 24 >>,
       << << 198, 18, 0, 0 >>, 15 >>,
       << << 198, 51, 100, 0 >>, 24 >>,
       << << 203, 0, 113, 0 >>, 24 >>,
       << << 224, 0, 0, 0 >>, 4 >>,
       << << 240, 0, 0, 0 >>, 4 >>,
       << << 0, 0, 0, 0 >>, 8 >>,
       << << 255, 255, 255, 255 >>, 32 >> >>

\* net.IPNet.Contains
CidrContains(cidr, ip) ==
    IF cidr[2] <= 16
    THEN IPHigh(ip) \div Pow2(16 - cidr[2]) = IPHigh(cidr[1]) \div Pow2(16 - cidr[2])
    ELSE /\ IPHigh(ip) = IPHigh(cidr[1])
         /\ IPLow(ip) \div Pow2(32 - cidr[2]) = IPLow(cidr[1]) \div Pow2(32 - cidr[2])

isPrivateOrSpecialIP(ip) ==
    /\ To4(ip) # NilIP
    /\ \E i \in 1..Len(cidrStrings) : CidrContains(cidrStrings[i], To4(ip))

(***************************************************************************)
(* URLs                                                                    *)
(***************************************************************************)
\* url.Parse(prefix + hostPort): a blank in the host is the parse error
\* the tokens of the model can produce
UrlParseFails(hostPort) == Contains(hostPort, " ")

\* u.Host of the parsed URL: everything up to the first "/"; it keeps the port
UrlHost(hostPort) == hostPort

(***************************************************************************)
(* The LRU cache of prefiller proxy handlers, most recently used first     *)
(***************************************************************************)
NilHandler == [id |-> 0, url |-> << >>]

CacheIndex(cache, key) ==
    IF \E i \in 1..Len(cache) : cache[i].key = key
    THEN CHOOSE i \in 1..Len(cache) : cache[i].key = key
    ELSE 0

RemoveAt(seq, i) == SubSeq(seq, 1, i - 1) \o SubSeq(seq, i + 1, Len(seq))

\* a slip in the recency: a hit leaves the entry where it was
LruGetNoTouch(cache, key) ==
    LET i == CacheIndex(cache, key) IN
    IF i = 0 THEN [exists |-> FALSE, value |-> NilHandler, cache |-> cache]
    ELSE [exists |-> TRUE, value |-> cache[i].value, cache |-> cache]

\* lru.Cache.Get: a hit makes the entry the most recently used
LruGet(cache, key) ==
    LET i == CacheIndex(cache, key) IN
    IF i = 0 THEN [exists |-> FALSE, value |-> NilHandler, cache |-> cache]
    ELSE [exists |-> TRUE, value |-> cache[i].value,
          cache |-> << cache[i] >> \o RemoveAt(cache, i)]

\* lru.Cache.Add: replaces the value of an existing key, else inserts and
\* evicts the least recently used entry when over capacity
LruAdd(cache, key, value) ==
    LET i == CacheIndex(cache, key)
        e == [key |-> key, value |-> value] IN
    IF i # 0 THEN << e >> \o RemoveAt(cache, i)
    ELSE IF Len(cache) >= CacheCapacity
    THEN << e >> \o SubSeq(cache, 1, CacheCapacity - 1)
    ELSE << e >> \o cache

(***************************************************************************)
(* JSON documents.  Bytes are [kind, fmt, m, kv]: kind "json" is a valid   *)
(* object, fmt is the layout of the text, m maps the top-level keys to     *)
(* their values (as JSON text) and kv is the object under                  *)
(* kv_transfer_params when m says that key holds an object.                *)
(***************************************************************************)
EmptyMap == [k \in {} |-> ""]

MapSet(m, k, v) == [x \in (DOMAIN m) \cup {k} |-> IF x = k THEN v ELSE m[x]]

MapDelete(m, k) == [x \in (DOMAIN m) \ {k} |-> m[x]]

\* the value and the ok flag of a Go map index expression
MapGet(m, k) == IF k \in DOMAIN m THEN m[k] ELSE "null"

RequestFieldKVTransferParams == "kv_transfer_params"
RequestFieldKVDoRemotePrefill == "do_remote_prefill"
RequestFieldKVDoRemoteDecode == "do_remote_decode"
RequestFieldKVRemoteBlockIDs == "remote_block_ids"
RequestFieldKVRemoteEngineID == "remote_engine_id"
RequestFieldKVRemoteHost == "remote_host"
RequestFieldKVRemotePort == "remote_port"
RequestFieldMaxTokens == "max_tokens"
RequestFieldMaxCompletionTokens == "max_completion_tokens"
RequestFieldStream == "stream"
RequestFieldStreamOptions == "stream_options"
requestFieldBootstrapHost == "bootstrap_host"
requestFieldBootstrapPort == "bootstrap_port"
requestFieldBootstrapRoom == "bootstrap_room"
requestFieldBootstrapRoomID == "bootstrap_room_id"
requestFieldRoomID == "room_id"

NoBytes == [kind |-> "none", fmt |-> "none", m |-> EmptyMap, kv |-> EmptyMap]

\* the integer literals at and above 2^53 that the bodies use: the literal
\* text stands for 2^exp + frac
IntegerLiterals ==
    << [text |-> "9007199254740992", exp |-> 53, frac |-> 0],
       [text |-> "9007199254740993", exp |-> 53, frac |-> 1],
       [text |-> "9007199254740994", exp |-> 53, frac |-> 2],
       [text |-> "9007199254740995", exp |-> 53, frac |-> 3],
       [text |-> "9007199254740996", exp |-> 53, frac |-> 4] >>

\* the distance between two float64 values around 2^exp: 52 bits follow the
\* leading one
Float64Ulp(exp) == IF exp > 52 THEN Pow2(exp - 52) ELSE 1

\* round to the nearest multiple of ulp, a tie to the even one
RoundHalfEven(frac, ulp) ==
    LET q == frac \div ulp
        r == frac % ulp
    IN  IF 2 * r < ulp THEN q * ulp
        ELSE IF 2 * r > ulp THEN (q + 1) * ulp
        ELSE IF q % 2 = 0 THEN q * ulp ELSE (q + 1) * ulp

\* a JSON value decoded into any and encoded again.  A number is decoded as a
\* float64 and written back as the shortest text of that float64: an integer
\* below 2^53 comes back as it was, one above is rounded to 53 bits.  The
\* other values (strings, booleans, null, objects, arrays) come back as they were.
Float64Text(v) ==
    IF \E i \in 1..Len(IntegerLiterals) : IntegerLiterals[i].text = v
    THEN LET lit == IntegerLiterals[CHOOSE i \in 1..Len(IntegerLiterals) :
                                       IntegerLiterals[i].text = v]
             rounded == RoundHalfEven(lit.frac, Float64Ulp(lit.exp))
         IN  IntegerLiterals[CHOOSE i \in 1..Len(IntegerLiterals) :
                                /\ IntegerLiterals[i].exp = lit.exp
                                /\ IntegerLiterals[i].frac = rounded].text
    ELSE v

\* json.Unmarshal into map[string]any: fails on anything but a JSON object,
\* forgets the layout of the text and decodes every number as a float64
Unmarshal(bytes) ==
    IF bytes.kind = "json"
    THEN [ok |-> TRUE,
          m |-> [k \in DOMAIN bytes.m |-> Float64Text(bytes.m[k])],
          kv |-> [k \in DOMAIN bytes.kv |-> Float64Text(bytes.kv[k])]]
    ELSE [ok |-> FALSE, m |-> EmptyMap, kv |-> EmptyMap]

\* json.Marshal of a map[string]any: always the compact layout
Marshal(m, kv) ==
    [kind |-> "json", fmt |-> "compact", m |-> m,
     kv |-> IF MapGet(m, RequestFieldKVTransferParams) = "object" THEN kv ELSE EmptyMap]

JsonObject(fmt, m, kv) == [kind |-> "json", fmt |-> fmt, m |-> m, kv |-> kv]

(***************************************************************************)
(* Inputs: what a client can send and what the upstreams can answer        *)
(***************************************************************************)
TargetA == << "10.0.0.5" >>
TargetB == << "10.0.0.6" >>

HeaderValues ==
    { EmptyString, << " " >>, TargetA, << "10.0.0.5", ":8000" >>, << "8.8.8.8" >>,
      << "http://", "10.0.0.5" >>,
      << "10.0.0.5", ",", "10.0.0.6" >>, << "10.0.0.5", ",", "10.0.0.5" >>,
      << " ", "10.0.0.5", ",", " ", "10.0.0.6" >> }

\* the occurrences of one header: absent, one value, or two values
HeaderLists ==
    { << >> } \cup { << v >> : v \in HeaderValues }
      \cup { << EmptyString, EmptyString >>, << TargetB, TargetA >> }

HostPortHeaderLists == { << >>, << TargetB >> }

\* method and path of the requests: the two intercepted patterns, another
\* method on one of the two paths, and another path
Routes ==
    { << "POST", ChatCompletionsPath >>, << "POST", CompletionsPath >>,
      << "GET", CompletionsPath >>, << "POST", "/v1/models" >> }

ClientBodies ==
    { [kind |-> "readerr", fmt |-> "none", m |-> EmptyMap, kv |-> EmptyMap],
      [kind |-> "invalid", fmt |-> "none", m |-> EmptyMap, kv |-> EmptyMap],
      JsonObject("pretty", [k \in {"model"} |-> "m"], EmptyMap),
      JsonObject("compact",
                 [k \in {"model", "stream", "stream_options", "max_tokens", "seed"} |->
                    CASE k = "model" -> "m" [] k = "stream" -> "true"
                      [] k = "stream_options" -> "opts" [] k = "max_tokens" -> "500"
                      [] k = "seed" -> "9007199254740993"],
                 EmptyMap),
      JsonObject("pretty",
                 [k \in {"model", "stream", "kv_transfer_params", "max_completion_tokens"} |->
                    CASE k = "model" -> "m" [] k = "stream" -> "false"
                      [] k = "kv_transfer_params" -> "object"
                      [] k = "max_completion_tokens" -> "7"],
                 [k \in {"do_remote_prefill"} |-> "false"]) }

\* the status codes the prefiller answers with; a transport failure is not a status
UpstreamStatuses == { 200, 299, 300, 503 }

\* the status codes the decoder answers with
DecoderStatuses == { 200, 503 }

KvFields == { RequestFieldKVRemoteBlockIDs, RequestFieldKVRemoteEngineID,
              RequestFieldKVRemoteHost, RequestFieldKVRemotePort }

FullKv ==
    [k \in KvFields |->
        CASE k = RequestFieldKVRemoteBlockIDs -> "[1,2,3]"
          [] k = RequestFieldKVRemoteEngineID -> "e"
          [] k = RequestFieldKVRemoteHost -> "h"
          [] k = RequestFieldKVRemotePort -> "9"]

PrefillerBodies ==
    { [kind |-> "invalid", fmt |-> "none", m |-> EmptyMap, kv |-> EmptyMap],
      JsonObject("compact", [k \in {"id"} |-> "x"], EmptyMap),
      JsonObject("compact", [k \in {"kv_transfer_params"} |-> "string"], EmptyMap),
      JsonObject("compact", [k \in {"kv_transfer_params"} |-> "object"], FullKv),
      JsonObject("compact", [k \in {"kv_transfer_params"} |-> "object"],
                 MapDelete(FullKv, RequestFieldKVRemoteHost)),
      JsonObject("compact", [k \in {"kv_transfer_params"} |-> "object"], EmptyMap) }

(***************************************************************************)
(* prefillerProxyHandler: the handler and the error it returns, with the   *)
(* cache as it leaves it                                                   *)
(***************************************************************************)
\* what follows the lookup when it missed: the prefix is cut, the URL parsed,
\* the address checked, the proxy built and added under the cut key
prefillerProxyHandlerMiss(cache, created, urlPrefix, hostPort) ==
    LET trimmed == CutPrefix(hostPort, "http://")
        err == IF UrlParseFails(trimmed) THEN "parse" ELSE "nil"
        targetIP == ParseIP(UrlHost(trimmed))
        proxy == [id |-> created + 1, url |-> << urlPrefix >> \o trimmed]
    IN  IF err # "nil"
        THEN [proxy |-> NilHandler, err |-> err, cache |-> cache, created |-> created]
        ELSE IF targetIP = NilIP \/ ~isPrivateOrSpecialIP(targetIP)
        THEN [proxy |-> NilHandler, err |-> err, cache |-> cache, created |-> created]
        ELSE [proxy |-> proxy, err |-> "nil",
              cache |-> LruAdd(cache, trimmed, proxy), created |-> created + 1]

prefillerProxyHandler(cache, created, urlPrefix, hostPort) ==
    LET got == LruGet(cache, hostPort)
    IN  IF got.exists
        THEN [proxy |-> got.value, err |-> "nil", cache |-> got.cache, created |-> created]
        ELSE prefillerProxyHandlerMiss(cache, created, urlPrefix, hostPort)

(***************************************************************************)
(* The client response writer and the error helpers                        *)
(***************************************************************************)
NotWritten == [status |-> 0, body |-> "none", writes |-> 0]

\* a slip in the propagation: 502 whatever the prefiller answered
WriteHeaderBadGateway(rw, code) ==
    [status |-> IF rw.status = 0 THEN StatusBadGateway ELSE rw.status,
     body |-> IF rw.status = 0 THEN "empty" ELSE rw.body,
     writes |-> rw.writes + 1]

\* http.ResponseWriter.WriteHeader with nothing after it
WriteHeader(rw, code) ==
    [status |-> IF rw.status = 0 THEN code ELSE rw.status,
     body |-> IF rw.status = 0 THEN "empty" ELSE rw.body,
     writes |-> rw.writes + 1]

\* a status followed by a body of the given kind
WriteResponse(rw, code, body) ==
    [status |-> IF rw.status = 0 THEN code ELSE rw.status,
     body |-> IF rw.status = 0 THEN body ELSE rw.body,
     writes |-> rw.writes + 1]

\* http.Error: a plain text body
httpError(rw, code) == WriteResponse(rw, code, "text")

\* errorJSONInvalid: 400 with {"object":"error","message":...}
errorJSONInvalid(rw) == WriteResponse(rw, StatusBadRequest, "json_error")

\* errorBadGateway: 502 with {"object":"error","message":...}
errorBadGateway(rw) == WriteResponse(rw, StatusBadGateway, "json_error")

\* a slip in the status test: the run goes on whatever the prefiller answered
PrefillFailedNever(code) == FALSE

\* a slip in the status test: 300 passes for a success
PrefillFailedOffByOne(code) == code < 200 \/ code > 300

\* the status test of the runners: pw.statusCode < 200 || pw.statusCode >= 300
PrefillFailed(code) == code < 200 \/ code >= 300

(***************************************************************************)
(* State                                                                   *)
(***************************************************************************)
VARIABLES
    runConnectorProtocol, \* Server.runConnectorProtocol, fixed at construction
    prefillerURLPrefix,   \* Server.prefillerURLPrefix
    bootstrapEnv,         \* the environment variable SGLANG_BOOTSTRAP_PORT
    prefillerProxies,     \* Server.prefillerProxies
    proxiesCreated,       \* number of reverse proxies constructed so far
    uuids,                \* number of request ids generated so far
    served,               \* number of requests accepted so far
    now,                  \* the last reading of the wall clock, in nanoseconds
    pc,                   \* where the request handler is
    req,                  \* the client request r
    prefillPodURL,        \* the target handed to the connector runner
    runnerCalls,          \* invocations of the connector runner for this request
    frame,                \* locals of the runner that live across the prefill call
    w,                    \* the client response writer
    pw,                   \* the bufferedResponseWriter of the prefill call
    prefillReq,           \* the request sent to the prefiller
    decodeReq,            \* the request sent to the decoder
    prefillCalls,         \* outbound requests to the prefiller for this request
    decodeCalls,          \* invocations of the decoder proxy for this request
    bg,                   \* the background prefill task of SGLang
    rooms,                \* the bootstrap rooms handed out so far, in order
    lookups,              \* the calls of prefillerProxyHandler under way, by goroutine
    requested,            \* number of pool hosts the lookups have named so far
    repeats,              \* number of lookups that named a host again
    used,                 \* the cache keys by their last use, the latest first
    flags,                \* the command line of the process
    mainPc,               \* where main is
    logged,               \* the error main or Start has logged
    exitCode,             \* the exit status of the process, -1 while it runs
    signalled,            \* the context of the signal handler is done
    shutdownPc,           \* where the goroutine that shuts the server down is
    inflight,             \* requests the server is serving
    drain                 \* seconds since server.Shutdown was called

vars == << runConnectorProtocol, prefillerURLPrefix, bootstrapEnv,
           prefillerProxies, proxiesCreated, uuids, served, now, pc, req,
           prefillPodURL, runnerCalls,
           frame, w, pw, prefillReq, decodeReq, prefillCalls, decodeCalls, bg,
           rooms, lookups, requested, repeats, used, flags, mainPc, logged,
           exitCode, signalled, shutdownPc, inflight, drain >>

\* the calls of prefillerProxyHandler that run beside the request at hand
lookupVars == << lookups, requested, repeats, used >>

\* the process around the server
mainVars == << flags, mainPc, logged, exitCode, signalled, shutdownPc, inflight, drain >>

\* what the handling of a request never writes
serverVars ==
    << runConnectorProtocol, prefillerURLPrefix, bootstrapEnv, lookupVars, mainVars >>

\* what SGLANG_BOOTSTRAP_PORT can hold; "" is also what os.Getenv gives when unset
EnvValues == { "", "7000", "abc" }

\* the runners NewProxy wires
Runners == { "runLMCacheProtocol", "runNIXLProtocolV1", "runNIXLProtocolV2" }

\* the SGLang runner of connector_sglang.go, and the one of the same name that
\* shares one request between the prefill and the decode
SGLangRunners == { "runSGLangProtocol", "runSGLangProtocolReq" }

\* ctxDone is r.Context() being done, cancelledAt where the handler was when
\* the client cancelled
NoRequest ==
    [method |-> "", path |-> "", url |-> << >>, hostPort |-> << >>, body |-> NoBytes,
     ctxDone |-> FALSE, cancelledAt |-> ""]

\* ctx is the context the outbound request carries: "request" for r.Context()
NoOutbound == [body |-> NoBytes, requestID |-> 0, proxy |-> NilHandler, ctx |-> "none"]

NoFrame ==
    [m |-> EmptyMap, kv |-> EmptyMap, uuidStr |-> 0, roomID |-> 0, reqBody |-> "none",
     streamOk |-> FALSE, streamValue |-> "null",
     streamOptionsOk |-> FALSE, streamOptionsValue |-> "null"]

NoBuffered == [statusCode |-> 0, buffer |-> NoBytes]

\* the goroutines that call prefillerProxyHandler at the same time
Goroutines == { "a", "b" }

NoLookup == [pc |-> "idle", hostPort |-> << >>, proxy |-> NilHandler, checked |-> FALSE]

NoFlags == [connector |-> "", ssrf |-> "off"]

\* the process once main is inside server.Serve
Serving ==
    /\ mainPc = "Serve"
    /\ logged = ""
    /\ exitCode = -1
    /\ signalled = FALSE
    /\ shutdownPc = "wait"
    /\ inflight = 0
    /\ drain = 0

\* no request has reached the server yet
NoTraffic ==
    /\ lookups = [g \in Goroutines |-> NoLookup]
    /\ requested = 0
    /\ repeats = 0
    /\ used = << >>
    /\ prefillerProxies = << >>
    /\ proxiesCreated = 0
    /\ uuids = 0
    /\ served = 0
    /\ now = 1
    /\ pc = "idle"
    /\ req = NoRequest
    /\ prefillPodURL = EmptyString
    /\ runnerCalls = 0
    /\ frame = NoFrame
    /\ w = NotWritten
    /\ pw = NoBuffered
    /\ prefillReq = NoOutbound
    /\ decodeReq = NoOutbound
    /\ prefillCalls = 0
    /\ decodeCalls = 0
    /\ bg = "none"
    /\ rooms = << >>

\* the server after construction, wired with one of the runners and started
\* in one of the environments
NewProxy(runners, envs) ==
    /\ runConnectorProtocol \in runners
    /\ prefillerURLPrefix = "http://"
    /\ bootstrapEnv \in envs
    /\ flags = NoFlags
    /\ Serving
    /\ NoTraffic

Init == NewProxy(Runners, { "" })

\* a server whose connector runner is one of the SGLang runners
InitSGLang == NewProxy(SGLangRunners, EnvValues)

(***************************************************************************)
(* A client request arrives and is given a fresh response writer           *)
(***************************************************************************)
Accept(routes, urls, hostPorts, bodies) ==
    /\ pc = "idle"
    /\ bg \in { "none", "done" }
    /\ served < MaxRequests
    /\ \E route \in routes, url \in urls, hostPort \in hostPorts, body \in bodies :
          req' = [method |-> route[1], path |-> route[2], url |-> url,
                  hostPort |-> hostPort, body |-> body,
                  ctxDone |-> FALSE, cancelledAt |-> ""]
    /\ served' = served + 1
    /\ pc' = "mux"
    /\ prefillPodURL' = EmptyString
    /\ runnerCalls' = 0
    /\ frame' = NoFrame
    /\ w' = NotWritten
    /\ pw' = NoBuffered
    /\ prefillReq' = NoOutbound
    /\ decodeReq' = NoOutbound
    /\ prefillCalls' = 0
    /\ decodeCalls' = 0
    /\ bg' = "none"
    /\ UNCHANGED << serverVars, rooms, prefillerProxies, proxiesCreated, uuids, now >>

Arrive == Accept(Routes, HeaderLists, HostPortHeaderLists, ClientBodies)

\* the requests an SGLang deployment is sent: a chat completion with the
\* prefill target as host, host:port or URL, or without one
SGLangHeaderLists ==
    { << >>, << TargetA >>, << << "10.0.0.5", ":8000" >> >>,
      << << "http://", "10.0.0.5" >> >>, << << "8.8.8.8" >> >> }

SGLangBodies == { b \in ClientBodies : b.kind = "invalid" \/ b.fmt = "compact" }

ArriveSGLang ==
    Accept({ << "POST", ChatCompletionsPath >> }, SGLangHeaderLists, { << >> },
           SGLangBodies)

\* http.Header.Get: the first value of the header, "" when there is none
HeaderGet(values) == IF values = << >> THEN EmptyString ELSE values[1]

\* a slip in the patterns: the two paths whatever the method
InterceptedAnyMethod(r) == r.path \in { ChatCompletionsPath, CompletionsPath }

\* the patterns createRoutes registers for the chat-completions handler
Intercepted(r) ==
    r.method = "POST" /\ r.path \in { ChatCompletionsPath, CompletionsPath }

\* a slip in the decode call: the request goes out without the request id
InvokeDecoderNoRequestID(body, requestID) ==
    /\ decodeReq' = [body |-> body, requestID |-> 0, proxy |-> NilHandler,
                     ctx |-> "request"]
    /\ decodeCalls' = decodeCalls + 1
    /\ pc' = "decode"

\* s.decoderProxy.ServeHTTP(w, r): the request leaves for the decoder
InvokeDecoder(body, requestID) ==
    /\ decodeReq' = [body |-> body, requestID |-> requestID, proxy |-> NilHandler,
                     ctx |-> "request"]
    /\ decodeCalls' = decodeCalls + 1
    /\ pc' = "decode"

\* mux.Handle("/", s.decoderProxy): everything the two patterns do not match
Passthrough ==
    /\ pc = "mux"
    /\ ~Intercepted(req)
    /\ InvokeDecoder(req.body, 0)
    /\ UNCHANGED << serverVars, rooms, prefillerProxies, proxiesCreated, uuids, served, now, req,
                    prefillPodURL, runnerCalls, frame, w, pw, prefillReq,
                    prefillCalls, bg >>

ChatCompletionsHandler ==
    /\ pc = "mux"
    /\ Intercepted(req)
    /\ LET target == HeaderGet(req.url) IN
       IF target = EmptyString
       THEN /\ InvokeDecoder(req.body, 0)
            /\ UNCHANGED << prefillPodURL, runnerCalls >>
       ELSE /\ prefillPodURL' = target
            /\ runnerCalls' = runnerCalls + 1
            /\ pc' = "runner"
            /\ UNCHANGED << decodeReq, decodeCalls >>
    /\ UNCHANGED << serverVars, rooms, prefillerProxies, proxiesCreated, uuids, served, now, req,
                    frame, w, pw, prefillReq, prefillCalls, bg >>

(***************************************************************************)
(* The upstreams                                                           *)
(***************************************************************************)
\* the transport gives an outbound request up once the context it carries
\* is done.  The server cancels r.Context() when the client goes away and
\* when the handler has returned, which only a call made from a goroutine
\* the handler left behind can live to see.
Aborted(out) ==
    /\ out.ctx = "request"
    /\ (req.ctxDone \/ pc \in { "done", "panic", "idle" })

\* what is left of a response whose copy was cut short
TruncatedBytes == [kind |-> "invalid", fmt |-> "none", m |-> EmptyMap, kv |-> EmptyMap]

\* a slip in the prefill call: the prefiller is heard out whatever became of
\* the client
PrefillerRespondsIgnoringContext ==
    /\ pc = "prefill"
    /\ \/ \E code \in UpstreamStatuses, body \in PrefillerBodies :
             pw' = [statusCode |-> code, buffer |-> body]
       \/ pw' = [statusCode |-> StatusBadGateway, buffer |-> NoBytes]
    /\ pc' = "prefilled"
    /\ UNCHANGED << serverVars, rooms, prefillerProxies, proxiesCreated, uuids, served, now, req,
                    prefillPodURL, runnerCalls, frame, w, prefillReq, decodeReq,
                    prefillCalls, decodeCalls, bg >>

\* the prefiller proxy returns: the prefiller's answer, or the 502 that the
\* reverse proxy's default error handler writes on a transport failure, a
\* cancelled round trip included.  A cancellation that cuts the copy of the
\* response makes the reverse proxy panic with http.ErrAbortHandler.
PrefillerResponds ==
    /\ pc = "prefill"
    /\ \/ /\ ~Aborted(prefillReq)
          /\ \E code \in UpstreamStatuses, body \in PrefillerBodies :
                pw' = [statusCode |-> code, buffer |-> body]
          /\ pc' = "prefilled"
       \/ /\ pw' = [statusCode |-> StatusBadGateway, buffer |-> NoBytes]
          /\ pc' = "prefilled"
       \/ /\ Aborted(prefillReq)
          /\ \E code \in UpstreamStatuses :
                pw' = [statusCode |-> code, buffer |-> TruncatedBytes]
          /\ pc' = "panic"
    /\ UNCHANGED << serverVars, rooms, prefillerProxies, proxiesCreated, uuids, served, now, req,
                    prefillPodURL, runnerCalls, frame, w, prefillReq, decodeReq,
                    prefillCalls, decodeCalls, bg >>

\* the decoder proxy returns: the decoder's answer streamed to the client, or
\* the 502 of the ErrorHandler createRoutes installs, which is all there is
\* when the transport found the body shorter than the content length
DecoderResponds ==
    /\ pc = "decode"
    /\ \/ /\ decodeReq.body.kind # "drained"
          /\ ~Aborted(decodeReq)
          /\ \E code \in DecoderStatuses : w' = WriteResponse(w, code, "decoder")
          /\ pc' = "done"
       \/ /\ w' = WriteHeader(w, StatusBadGateway)
          /\ pc' = "done"
       \/ /\ decodeReq.body.kind # "drained"
          /\ Aborted(decodeReq)
          /\ \E code \in DecoderStatuses : w' = WriteResponse(w, code, "truncated")
          /\ pc' = "panic"
    /\ UNCHANGED << serverVars, rooms, prefillerProxies, proxiesCreated, uuids, served, now, req,
                    prefillPodURL, runnerCalls, frame, pw, prefillReq, decodeReq,
                    prefillCalls, decodeCalls, bg >>

\* the client goes away while its request is handled: the server cancels
\* r.Context()
Cancel ==
    /\ pc \in { "mux", "runner", "prefill", "prefilled", "decode" }
    /\ ~req.ctxDone
    /\ req' = [req EXCEPT !.ctxDone = TRUE, !.cancelledAt = pc]
    /\ UNCHANGED << serverVars, rooms, prefillerProxies, proxiesCreated, uuids, served, now, pc,
                    prefillPodURL, runnerCalls, frame, w, pw, prefillReq, decodeReq,
                    prefillCalls, decodeCalls, bg >>

\* the handler has returned (or panicked and was recovered by the server):
\* the connection is ready for the next request.  What a background prefill
\* task captured stays alive while the task runs.
Finish ==
    /\ pc \in { "done", "panic" }
    /\ pc' = "idle"
    /\ req' = NoRequest
    /\ runnerCalls' = 0
    /\ w' = NotWritten
    /\ decodeReq' = NoOutbound
    /\ decodeCalls' = 0
    /\ IF bg \in { "spawned", "prefill" }
       THEN UNCHANGED << prefillPodURL, frame, pw, prefillReq, prefillCalls, bg >>
       ELSE /\ prefillPodURL' = EmptyString
            /\ frame' = NoFrame
            /\ pw' = NoBuffered
            /\ prefillReq' = NoOutbound
            /\ prefillCalls' = 0
            /\ bg' = "none"
    /\ UNCHANGED << serverVars, rooms, prefillerProxies, proxiesCreated, uuids, served, now >>

(***************************************************************************)
(* Steps shared by the runners                                             *)
(***************************************************************************)
\* the runner returns after writing rw
Return(rw) ==
    /\ w' = rw
    /\ pc' = "done"

\* prefillHandler, err := s.prefillerProxyHandler(prefillPodURL), the error
\* branch, and prefillHandler.ServeHTTP(pw, preq).  Calling ServeHTTP on the
\* nil handler is a nil dereference: the handler goroutine panics.
ForwardToPrefiller(pbody, requestID) ==
    LET h == prefillerProxyHandler(prefillerProxies, proxiesCreated,
                                   prefillerURLPrefix, prefillPodURL) IN
    /\ prefillerProxies' = h.cache
    /\ proxiesCreated' = h.created
    /\ IF h.err # "nil"
       THEN /\ Return(errorBadGateway(w))
            /\ UNCHANGED << prefillReq, prefillCalls >>
       ELSE IF h.proxy = NilHandler
       THEN /\ pc' = "panic"
            /\ UNCHANGED << w, prefillReq, prefillCalls >>
       ELSE /\ prefillReq' = [body |-> pbody, requestID |-> requestID, proxy |-> h.proxy,
                               ctx |-> "request"]
            /\ prefillCalls' = prefillCalls + 1
            /\ pc' = "prefill"
            /\ UNCHANGED w

(***************************************************************************)
(* runLMCacheProtocol                                                      *)
(***************************************************************************)
\* a slip in the clamp: max_completion_tokens is left as the client set it
ClampTokensMaxTokensOnly(m) == MapSet(m, RequestFieldMaxTokens, "1")

\* completionRequest[RequestFieldMaxTokens] = 1 and
\* completionRequest[RequestFieldMaxCompletionTokens] = 1
ClampTokens(m) ==
    MapSet(MapSet(m, RequestFieldMaxTokens, "1"), RequestFieldMaxCompletionTokens, "1")

\* up to the prefill call
runLMCacheProtocol ==
    /\ pc = "runner"
    /\ runConnectorProtocol = "runLMCacheProtocol"
    /\ LET original == req.body
           completionRequest == Unmarshal(original)
           pbody == Marshal(ClampTokens(completionRequest.m), completionRequest.kv)
       IN  IF original.kind = "readerr"
           THEN /\ Return(WriteResponse(w, StatusBadRequest, "text"))
                /\ UNCHANGED << prefillerProxies, proxiesCreated, prefillReq, prefillCalls >>
           ELSE IF ~completionRequest.ok
           THEN /\ Return(errorJSONInvalid(w))
                /\ UNCHANGED << prefillerProxies, proxiesCreated, prefillReq, prefillCalls >>
           ELSE ForwardToPrefiller(pbody, 0)
    /\ UNCHANGED << serverVars, rooms, uuids, served, now, req, prefillPodURL, runnerCalls, frame,
                    pw, decodeReq, decodeCalls, bg >>

\* a slip in the decode: the clamped body of the prefill goes to the decoder
runLMCacheProtocolDecodeClamped ==
    /\ pc = "prefilled"
    /\ runConnectorProtocol = "runLMCacheProtocol"
    /\ IF PrefillFailed(pw.statusCode)
       THEN /\ Return(WriteHeader(w, pw.statusCode))
            /\ UNCHANGED << decodeReq, decodeCalls >>
       ELSE /\ InvokeDecoder(prefillReq.body, 0)
            /\ UNCHANGED w
    /\ UNCHANGED << serverVars, rooms, prefillerProxies, proxiesCreated, uuids, served, now, req,
                    prefillPodURL, runnerCalls, frame, pw, prefillReq, prefillCalls, bg >>

\* a slip in the status test: the return after w.WriteHeader is missing
runLMCacheProtocolDecodeNoReturn ==
    /\ pc = "prefilled"
    /\ runConnectorProtocol = "runLMCacheProtocol"
    /\ IF PrefillFailed(pw.statusCode)
       THEN /\ w' = WriteHeader(w, pw.statusCode)
            /\ InvokeDecoder(req.body, 0)
       ELSE /\ InvokeDecoder(req.body, 0)
            /\ UNCHANGED w
    /\ UNCHANGED << serverVars, rooms, prefillerProxies, proxiesCreated, uuids, served, now, req,
                    prefillPodURL, runnerCalls, frame, pw, prefillReq, prefillCalls, bg >>

\* from the return of the prefill call
runLMCacheProtocolDecode ==
    /\ pc = "prefilled"
    /\ runConnectorProtocol = "runLMCacheProtocol"
    /\ IF PrefillFailed(pw.statusCode)
       THEN /\ Return(WriteHeader(w, pw.statusCode))
            /\ UNCHANGED << decodeReq, decodeCalls >>
       ELSE /\ InvokeDecoder(req.body, 0)
            /\ UNCHANGED w
    /\ UNCHANGED << serverVars, rooms, prefillerProxies, proxiesCreated, uuids, served, now, req,
                    prefillPodURL, runnerCalls, frame, pw, prefillReq, prefillCalls, bg >>

(***************************************************************************)
(* runNIXLProtocol (NIXL v1)                                               *)
(***************************************************************************)
\* a slip in the prefill body: stream_options is not deleted
PrefillRewriteKeepsOptions(m) ==
    MapSet(MapSet(m, RequestFieldStream, "false"), RequestFieldKVTransferParams, "object")

\* completionRequest[RequestFieldStream] = false, the new kv_transfer_params
\* object and delete(completionRequest, RequestFieldStreamOptions)
PrefillRewrite(m) ==
    MapDelete(MapSet(MapSet(m, RequestFieldStream, "false"),
                     RequestFieldKVTransferParams, "object"),
              RequestFieldStreamOptions)

\* up to the prefill call.  uuid.NewUUID and json.Marshal of a map that
\* json.Unmarshal produced do not fail, so their error branches are left out.
runNIXLProtocol ==
    /\ pc = "runner"
    /\ runConnectorProtocol = "runNIXLProtocolV1"
    /\ LET original == req.body
           completionRequest == Unmarshal(original)
           uuidStr == uuids + 1
           kvParams == [k \in { RequestFieldKVDoRemoteDecode } |-> "true"]
           rewritten == PrefillRewrite(completionRequest.m)
           pbody == Marshal(rewritten, kvParams)
       IN  IF original.kind = "readerr"
           THEN /\ Return(WriteResponse(w, StatusBadRequest, "text"))
                /\ UNCHANGED << prefillerProxies, proxiesCreated, prefillReq,
                                prefillCalls, uuids, frame >>
           ELSE IF ~completionRequest.ok
           THEN /\ Return(errorJSONInvalid(w))
                /\ UNCHANGED << prefillerProxies, proxiesCreated, prefillReq,
                                prefillCalls, uuids, frame >>
           ELSE /\ uuids' = uuids + 1
                /\ frame' =
                     [m |-> rewritten, kv |-> kvParams, uuidStr |-> uuidStr, roomID |-> 0,
                      reqBody |-> "none",
                      streamOk |-> RequestFieldStream \in DOMAIN completionRequest.m,
                      streamValue |-> MapGet(completionRequest.m, RequestFieldStream),
                      streamOptionsOk |->
                          RequestFieldStreamOptions \in DOMAIN completionRequest.m,
                      streamOptionsValue |->
                          MapGet(completionRequest.m, RequestFieldStreamOptions)]
                /\ ForwardToPrefiller(pbody, uuidStr)
    /\ UNCHANGED << serverVars, rooms, served, now, req, prefillPodURL, runnerCalls, pw,
                    decodeReq, decodeCalls, bg >>

\* a slip in the decode parameters: do_remote_decode is not deleted
DecodeKvParamsKeepsDecode(kvParamsPrefill) ==
    [k \in { RequestFieldKVDoRemoteDecode, RequestFieldKVDoRemotePrefill } \cup KvFields |->
        IF k \in { RequestFieldKVDoRemoteDecode, RequestFieldKVDoRemotePrefill }
        THEN "true" ELSE MapGet(kvParamsPrefill, k)]

\* the kv_transfer_params of the decode request: a field the prefiller left
\* out is the nil interface value, which json.Marshal writes as null
DecodeKvParams(kvParamsPrefill) ==
    [k \in { RequestFieldKVDoRemotePrefill } \cup KvFields |->
        IF k = RequestFieldKVDoRemotePrefill THEN "true" ELSE MapGet(kvParamsPrefill, k)]

\* a slip in the decode body: the stream = false of the prefill is not deleted
DecodeBodyForcedStream(fr, kvParamsPrefill) ==
    LET withStream == IF fr.streamOk
                      THEN MapSet(fr.m, RequestFieldStream, fr.streamValue)
                      ELSE fr.m
        withOptions == IF fr.streamOptionsOk
                       THEN MapSet(withStream, RequestFieldStreamOptions,
                                   fr.streamOptionsValue)
                       ELSE withStream
    IN  Marshal(withOptions, DecodeKvParams(kvParamsPrefill))

\* the body of the decode request: stream and stream_options as the client had them
DecodeBody(fr, kvParamsPrefill) ==
    LET noStream == MapDelete(fr.m, RequestFieldStream)
        withStream == IF fr.streamOk
                      THEN MapSet(noStream, RequestFieldStream, fr.streamValue)
                      ELSE noStream
        withOptions == IF fr.streamOptionsOk
                       THEN MapSet(withStream, RequestFieldStreamOptions,
                                   fr.streamOptionsValue)
                       ELSE withStream
    IN  Marshal(withOptions, DecodeKvParams(kvParamsPrefill))

\* from the return of the prefill call
runNIXLProtocolDecode ==
    /\ pc = "prefilled"
    /\ runConnectorProtocol = "runNIXLProtocolV1"
    /\ LET prefillerResponse == Unmarshal(pw.buffer)
           kvParamsPrefillRaw == MapGet(prefillerResponse.m, RequestFieldKVTransferParams)
       IN  IF PrefillFailed(pw.statusCode)
           THEN /\ Return(WriteHeader(w, pw.statusCode))
                /\ UNCHANGED << decodeReq, decodeCalls >>
           ELSE IF ~prefillerResponse.ok
           THEN /\ Return(errorJSONInvalid(w))
                /\ UNCHANGED << decodeReq, decodeCalls >>
           ELSE IF RequestFieldKVTransferParams \notin DOMAIN prefillerResponse.m
           THEN /\ Return(w)
                /\ UNCHANGED << decodeReq, decodeCalls >>
           ELSE IF kvParamsPrefillRaw # "object"
           THEN /\ Return(w)
                /\ UNCHANGED << decodeReq, decodeCalls >>
           ELSE /\ InvokeDecoder(DecodeBody(frame, prefillerResponse.kv), frame.uuidStr)
                /\ UNCHANGED w
    /\ UNCHANGED << serverVars, rooms, prefillerProxies, proxiesCreated, uuids, served, now, req,
                    prefillPodURL, runnerCalls, frame, pw, prefillReq, prefillCalls, bg >>

(***************************************************************************)
(* runNIXLProtocolV2                                                       *)
(***************************************************************************)
\* kv_transfer_params.do_remote_prefill = true, keeping what the client put there
WithRemotePrefill(m, kv) ==
    IF MapGet(m, RequestFieldKVTransferParams) = "object"
    THEN MapSet(kv, RequestFieldKVDoRemotePrefill, "true")
    ELSE [k \in { RequestFieldKVDoRemotePrefill } |-> "true"]

\* up to the prefill call
runNIXLProtocolV2 ==
    /\ pc = "runner"
    /\ runConnectorProtocol = "runNIXLProtocolV2"
    /\ LET original == req.body
           completionRequest == Unmarshal(original)
           uuidStr == uuids + 1
           pbody == Marshal(MapSet(completionRequest.m, RequestFieldKVTransferParams,
                                   "object"),
                            WithRemotePrefill(completionRequest.m, completionRequest.kv))
       IN  IF ~completionRequest.ok
           THEN /\ Return(errorJSONInvalid(w))
                /\ UNCHANGED << prefillerProxies, proxiesCreated, prefillReq,
                                prefillCalls, uuids, frame >>
           ELSE /\ uuids' = uuids + 1
                /\ frame' = [NoFrame EXCEPT !.uuidStr = uuidStr]
                /\ ForwardToPrefiller(pbody, uuidStr)
    /\ UNCHANGED << serverVars, rooms, served, now, req, prefillPodURL, runnerCalls, pw,
                    decodeReq, decodeCalls, bg >>

\* a slip in the decode: the rewritten body of the prefill goes to the decoder
runNIXLProtocolV2DecodeRewritten ==
    /\ pc = "prefilled"
    /\ runConnectorProtocol = "runNIXLProtocolV2"
    /\ IF PrefillFailed(pw.statusCode)
       THEN /\ \E body \in { "empty", "prefiller" } :
                  Return(WriteResponse(w, pw.statusCode, body))
            /\ UNCHANGED << decodeReq, decodeCalls >>
       ELSE /\ InvokeDecoder(prefillReq.body, frame.uuidStr)
            /\ UNCHANGED w
    /\ UNCHANGED << serverVars, rooms, prefillerProxies, proxiesCreated, uuids, served, now, req,
                    prefillPodURL, runnerCalls, frame, pw, prefillReq, prefillCalls, bg >>

\* from the return of the prefill call; whether the prefiller's body goes
\* out with its status is left open
runNIXLProtocolV2Decode ==
    /\ pc = "prefilled"
    /\ runConnectorProtocol = "runNIXLProtocolV2"
    /\ IF PrefillFailed(pw.statusCode)
       THEN /\ \E body \in { "empty", "prefiller" } :
                  Return(WriteResponse(w, pw.statusCode, body))
            /\ UNCHANGED << decodeReq, decodeCalls >>
       ELSE /\ InvokeDecoder(req.body, frame.uuidStr)
            /\ UNCHANGED w
    /\ UNCHANGED << serverVars, rooms, prefillerProxies, proxiesCreated, uuids, served, now, req,
                    prefillPodURL, runnerCalls, frame, pw, prefillReq, prefillCalls, bg >>

(***************************************************************************)
(* runSGLangProtocol                                                       *)
(***************************************************************************)
\* rand.Intn(1000) returns 0..999; the model draws from 0..MaxRandOffset
MaxRandOffset == 1

\* how far the clock moves between two readings of it, at least by one
MaxTick == 2

\* strconv.Atoi on the values the environment variable can hold
Atoi(str) ==
    CASE str = "7000" -> [ok |-> TRUE, n |-> 7000]
      [] OTHER -> [ok |-> FALSE, n |-> 0]

\* the part of a token before its first colon, for the tokens that have one
ColonTokens ==
    [ tok \in { "http://", ":8000", "::1" } |->
        CASE tok = "http://" -> << "http" >>
          [] tok = ":8000"   -> << >>
          [] tok = "::1"     -> << >> ]

\* strings.Split(prefillHost, ":")[0]
RECURSIVE BeforeColon(_)
BeforeColon(str) ==
    IF str = << >> THEN << >>
    ELSE IF Head(str) \in DOMAIN ColonTokens THEN ColonTokens[Head(str)]
    ELSE << Head(str) >> \o BeforeColon(Tail(str))

generateBootstrapHost(prefillHost) == BeforeColon(prefillHost)

\* time.Now().UnixNano() + int64(rand.Intn(1000))
generateSGLangRoomID(unixNano, random) == unixNano + random

\* the values are written as JSON text
addSGLangBootstrapInfo(requestData, bootstrapHost, portStr, roomID) ==
    LET port == IF portStr # "" /\ Atoi(portStr).ok
                THEN Atoi(portStr).n ELSE DefaultBootstrapPort
        added == { requestFieldBootstrapHost, requestFieldBootstrapPort,
                   requestFieldBootstrapRoom, requestFieldBootstrapRoomID,
                   requestFieldRoomID }
    IN  [k \in (DOMAIN requestData) \cup added |->
            CASE k = requestFieldBootstrapHost -> ToString(bootstrapHost)
              [] k = requestFieldBootstrapPort -> ToString(port)
              [] k \in { requestFieldBootstrapRoom, requestFieldBootstrapRoomID,
                         requestFieldRoomID } -> ToString(roomID)
              [] OTHER -> requestData[k]]

\* runSGLangProtocol and sendSGLangConcurrentRequests up to the go statement
runSGLangProtocol ==
    /\ pc = "runner"
    /\ runConnectorProtocol = "runSGLangProtocol"
    /\ LET requestData == Unmarshal(req.body) IN
       IF ~requestData.ok
       THEN /\ Return(httpError(w, StatusBadRequest))
            /\ UNCHANGED << now, frame, bg, rooms >>
       ELSE IF prefillPodURL = EmptyString
       THEN /\ Return(httpError(w, StatusBadRequest))
            /\ UNCHANGED << now, frame, bg, rooms >>
       ELSE \E tick \in 1..MaxTick, offset \in 0..MaxRandOffset :
            /\ now' = now + tick
            /\ rooms' = Append(rooms, generateSGLangRoomID(now', offset))
            /\ frame' = [NoFrame EXCEPT
                           !.m = addSGLangBootstrapInfo(requestData.m,
                                    generateBootstrapHost(prefillPodURL),
                                    bootstrapEnv,
                                    generateSGLangRoomID(now', offset)),
                           !.kv = requestData.kv,
                           !.roomID = generateSGLangRoomID(now', offset)]
            /\ bg' = "spawned"
            /\ pc' = "sglang_decode"
            /\ UNCHANGED w
    /\ UNCHANGED << serverVars, prefillerProxies, proxiesCreated, uuids, served, req,
                    prefillPodURL, runnerCalls, pw, prefillReq, decodeReq,
                    prefillCalls, decodeCalls >>

\* the synchronous decode of sendSGLangConcurrentRequests
sendSGLangDecode ==
    /\ pc = "sglang_decode"
    /\ runConnectorProtocol = "runSGLangProtocol"
    /\ InvokeDecoder(Marshal(frame.m, frame.kv), 0)
    /\ UNCHANGED << serverVars, rooms, prefillerProxies, proxiesCreated, uuids, served, now, req,
                    prefillPodURL, runnerCalls, frame, w, pw, prefillReq,
                    prefillCalls, bg >>

\* a slip in the prefill call: the goroutine sends it with a context of its
\* own, which nothing cancels
sendSGLangPrefillDetached ==
    /\ bg = "spawned"
    /\ pc # "crashed"
    /\ runConnectorProtocol = "runSGLangProtocol"
    /\ LET h == prefillerProxyHandler(prefillerProxies, proxiesCreated,
                                      prefillerURLPrefix, prefillPodURL) IN
       /\ prefillerProxies' = h.cache
       /\ proxiesCreated' = h.created
       /\ IF h.err # "nil"
          THEN /\ bg' = "done"
               /\ UNCHANGED << pc, prefillReq, prefillCalls >>
          ELSE IF h.proxy = NilHandler
          THEN /\ pc' = "crashed"
               /\ UNCHANGED << bg, prefillReq, prefillCalls >>
          ELSE /\ prefillReq' = [body |-> Marshal(frame.m, frame.kv), requestID |-> 0,
                                 proxy |-> h.proxy, ctx |-> "background"]
               /\ prefillCalls' = prefillCalls + 1
               /\ bg' = "prefill"
               /\ UNCHANGED pc
    /\ UNCHANGED << serverVars, rooms, uuids, served, now, req, prefillPodURL, runnerCalls,
                    frame, w, pw, decodeReq, decodeCalls >>

\* the goroutine of sendSGLangConcurrentRequests up to its prefill call.  A
\* panic in a goroutine the server did not start is not recovered: the
\* process dies.
sendSGLangPrefill ==
    /\ bg = "spawned"
    /\ pc # "crashed"
    /\ runConnectorProtocol = "runSGLangProtocol"
    /\ LET h == prefillerProxyHandler(prefillerProxies, proxiesCreated,
                                      prefillerURLPrefix, prefillPodURL) IN
       /\ prefillerProxies' = h.cache
       /\ proxiesCreated' = h.created
       /\ IF h.err # "nil"
          THEN /\ bg' = "done"
               /\ UNCHANGED << pc, prefillReq, prefillCalls >>
          ELSE IF h.proxy = NilHandler
          THEN /\ pc' = "crashed"
               /\ UNCHANGED << bg, prefillReq, prefillCalls >>
          ELSE /\ prefillReq' = [body |-> Marshal(frame.m, frame.kv), requestID |-> 0,
                                 proxy |-> h.proxy, ctx |-> "request"]
               /\ prefillCalls' = prefillCalls + 1
               /\ bg' = "prefill"
               /\ UNCHANGED pc
    /\ UNCHANGED << serverVars, rooms, uuids, served, now, req, prefillPodURL, runnerCalls,
                    frame, w, pw, decodeReq, decodeCalls >>

\* the prefill call of the goroutine returns and the goroutine ends: the
\* status in its own pw is logged and dropped with it, the body is never
\* read.  A call given up by the transport ends with the 502 of the reverse
\* proxy's error handler; when the copy of the response is cut short the
\* reverse proxy panics with http.ErrAbortHandler, which nothing recovers
\* in this goroutine.
sendSGLangPrefillDone ==
    /\ bg = "prefill"
    /\ pc # "crashed"
    /\ \/ /\ ~Aborted(prefillReq)
          /\ \E code \in UpstreamStatuses :
                pw' = [statusCode |-> code, buffer |-> NoBytes]
          /\ bg' = "done"
          /\ UNCHANGED pc
       \/ /\ pw' = [statusCode |-> StatusBadGateway, buffer |-> NoBytes]
          /\ bg' = "done"
          /\ UNCHANGED pc
       \/ /\ Aborted(prefillReq)
          /\ \E code \in UpstreamStatuses :
                pw' = [statusCode |-> code, buffer |-> TruncatedBytes]
          /\ pc' = "crashed"
          /\ UNCHANGED bg
    /\ UNCHANGED << serverVars, rooms, prefillerProxies, proxiesCreated, uuids, served, now, req,
                    prefillPodURL, runnerCalls, frame, w, prefillReq, decodeReq,
                    prefillCalls, decodeCalls >>

(***************************************************************************)
(* runSGLangProtocol with one request for both sides: the runner marshals  *)
(* the rewritten body once into newReq, and sendSGLangConcurrentRequests   *)
(* hands Req, whose Body is newReq.Body, to the prefiller proxy in a       *)
(* goroutine and to the decoder proxy.                                     *)
(***************************************************************************)
\* strings.Split(prefillHostPort, ":")[0] and the port of the environment
getBootstrapHost(prefillHostPort, portStr) ==
    [hostname |-> BeforeColon(prefillHostPort),
     bootstrapPort |-> IF portStr # "" /\ Atoi(portStr).ok
                       THEN Atoi(portStr).n ELSE DefaultBootstrapPort]

\* addSGLangBootstrapInfo of this runner: three fields
addSGLangBootstrapInfoReq(requestData, prefillHostPort, portStr, roomID) ==
    LET b == getBootstrapHost(prefillHostPort, portStr)
        added == { requestFieldBootstrapHost, requestFieldBootstrapPort,
                   requestFieldBootstrapRoom }
    IN  [k \in (DOMAIN requestData) \cup added |->
            CASE k = requestFieldBootstrapHost -> ToString(b.hostname)
              [] k = requestFieldBootstrapPort -> ToString(b.bootstrapPort)
              [] k = requestFieldBootstrapRoom -> ToString(roomID)
              [] OTHER -> requestData[k]]

\* a body of which the reader had nothing left to give
DrainedBytes == [kind |-> "drained", fmt |-> "none", m |-> EmptyMap, kv |-> EmptyMap]

\* what a ServeHTTP call finds in Req.Body, the strings.Reader it shares with
\* the other call, and what it leaves there: the whole body, leaving nothing;
\* the whole body while the other call reads the same bytes, the reader
\* having no lock; or nothing, the other call having read it all.  Each call
\* reads in one step.
ReadBody(reqBody) ==
    IF reqBody = "unread"
    THEN { [ok |-> TRUE, left |-> "drained"], [ok |-> TRUE, left |-> "unread"] }
    ELSE { [ok |-> FALSE, left |-> "drained"] }

\* runSGLangProtocol and sendSGLangConcurrentRequests up to the go statement
runSGLangProtocolReq ==
    /\ pc = "runner"
    /\ runConnectorProtocol = "runSGLangProtocolReq"
    /\ LET requestData == Unmarshal(req.body) IN
       IF ~requestData.ok
       THEN /\ Return(errorJSONInvalid(w))
            /\ UNCHANGED << now, frame, bg, rooms >>
       ELSE IF prefillPodURL = EmptyString
       THEN /\ Return(errorJSONInvalid(w))
            /\ UNCHANGED << now, frame, bg, rooms >>
       ELSE \E tick \in 1..MaxTick, offset \in 0..MaxRandOffset :
            /\ now' = now + tick
            /\ rooms' = Append(rooms, generateSGLangRoomID(now', offset))
            /\ frame' = [NoFrame EXCEPT
                           !.m = addSGLangBootstrapInfoReq(requestData.m, prefillPodURL,
                                    bootstrapEnv, generateSGLangRoomID(now', offset)),
                           !.kv = requestData.kv,
                           !.roomID = generateSGLangRoomID(now', offset),
                           !.reqBody = "unread"]
            /\ bg' = "spawned"
            /\ pc' = "sglang_decode"
            /\ UNCHANGED w
    /\ UNCHANGED << serverVars, prefillerProxies, proxiesCreated, uuids, served, req,
                    prefillPodURL, runnerCalls, pw, prefillReq, decodeReq,
                    prefillCalls, decodeCalls >>

\* s.decoderProxy.ServeHTTP(w, Req)
sendSGLangConcurrentRequestsDecode ==
    /\ pc = "sglang_decode"
    /\ runConnectorProtocol = "runSGLangProtocolReq"
    /\ \E r \in ReadBody(frame.reqBody) :
          /\ InvokeDecoder(IF r.ok THEN Marshal(frame.m, frame.kv) ELSE DrainedBytes, 0)
          /\ frame' = [frame EXCEPT !.reqBody = r.left]
    /\ UNCHANGED << serverVars, rooms, prefillerProxies, proxiesCreated, uuids, served, now, req,
                    prefillPodURL, runnerCalls, w, pw, prefillReq, prefillCalls, bg >>

\* the goroutine up to prefillHandler.ServeHTTP(pw, Req)
sendSGLangConcurrentRequestsPrefill ==
    /\ bg = "spawned"
    /\ pc # "crashed"
    /\ runConnectorProtocol = "runSGLangProtocolReq"
    /\ LET h == prefillerProxyHandler(prefillerProxies, proxiesCreated,
                                      prefillerURLPrefix, prefillPodURL) IN
       /\ prefillerProxies' = h.cache
       /\ proxiesCreated' = h.created
       /\ IF h.err # "nil"
          THEN /\ bg' = "done"
               /\ UNCHANGED << pc, prefillReq, prefillCalls, frame >>
          ELSE IF h.proxy = NilHandler
          THEN /\ pc' = "crashed"
               /\ UNCHANGED << bg, prefillReq, prefillCalls, frame >>
          ELSE /\ \E r \in ReadBody(frame.reqBody) :
                    /\ prefillReq' =
                         [body |-> IF r.ok THEN Marshal(frame.m, frame.kv)
                                   ELSE DrainedBytes,
                          requestID |-> 0, proxy |-> h.proxy, ctx |-> "request"]
                    /\ frame' = [frame EXCEPT !.reqBody = r.left]
               /\ prefillCalls' = prefillCalls + 1
               /\ bg' = "prefill"
               /\ UNCHANGED pc
    /\ UNCHANGED << serverVars, rooms, uuids, served, now, req, prefillPodURL, runnerCalls,
                    w, pw, decodeReq, decodeCalls >>

(***************************************************************************)
(* The specification                                                       *)
(***************************************************************************)
Next ==
    \/ Arrive
    \/ Passthrough
    \/ ChatCompletionsHandler
    \/ runLMCacheProtocol
    \/ runLMCacheProtocolDecode
    \/ runNIXLProtocol
    \/ runNIXLProtocolDecode
    \/ runNIXLProtocolV2
    \/ runNIXLProtocolV2Decode
    \/ PrefillerResponds
    \/ DecoderResponds
    \/ Finish

Spec == Init /\ [][Next]_vars

\* a server that runs SGLang
NextSGLang ==
    \/ ArriveSGLang
    \/ ChatCompletionsHandler
    \/ runSGLangProtocol
    \/ sendSGLangDecode
    \/ sendSGLangPrefill
    \/ runSGLangProtocolReq
    \/ sendSGLangConcurrentRequestsDecode
    \/ sendSGLangConcurrentRequestsPrefill
    \/ sendSGLangPrefillDone
    \/ DecoderResponds
    \/ Finish

SpecSGLang == InitSGLang /\ [][NextSGLang]_vars

(***************************************************************************)
(* The process: main, Start and the goroutine that shuts the server down.  *)
(* The requests are only counted here.                                     *)
(***************************************************************************)
ConnectorNIXLV1 == "nixl"
ConnectorNIXLV2 == "nixlv2"
ConnectorLMCache == "lmcache"

\* the values of -connector: the three the package names, sglang, and one
\* that nothing knows
ConnectorFlags == { ConnectorNIXLV1, ConnectorNIXLV2, ConnectorLMCache, "sglang", "bogus" }

\* -enable-ssrf-protection: off, on without a pool namespace or name, or on
\* with both
SsrfFlags == { "off", "incomplete", "complete" }

\* the switch of NewProxy
connectorRunner(connector) ==
    CASE connector = ConnectorLMCache -> "runLMCacheProtocol"
      [] connector = ConnectorNIXLV1 -> "runNIXLProtocolV1"
      [] OTHER -> "runNIXLProtocolV2"

requestVars ==
    << lookupVars, prefillerProxies, proxiesCreated, uuids, served, now, pc, req,
       prefillPodURL, runnerCalls, frame, w, pw, prefillReq, decodeReq, prefillCalls,
       decodeCalls, bg, rooms >>

\* the process at the top of main, the flags parsed
InitMain ==
    /\ runConnectorProtocol = "none"
    /\ prefillerURLPrefix = ""
    /\ bootstrapEnv = ""
    /\ flags \in [connector : ConnectorFlags, ssrf : SsrfFlags]
    /\ mainPc = "main"
    /\ logged = ""
    /\ exitCode = -1
    /\ signalled = FALSE
    /\ shutdownPc = "none"
    /\ inflight = 0
    /\ drain = 0
    /\ NoTraffic

\* main returns: the deferred flush runs and the process exits with status 0
mainReturn ==
    /\ mainPc' = "exit"
    /\ exitCode' = 0

\* main up to the call of NewProxy: the connector and the pool flags
mainFlags ==
    /\ mainPc = "main"
    /\ IF flags.connector \notin { ConnectorNIXLV1, ConnectorNIXLV2, ConnectorLMCache }
       THEN logged' = "connector" /\ mainReturn
       ELSE IF flags.ssrf = "incomplete"
       THEN logged' = "ssrf" /\ mainReturn
       ELSE UNCHANGED << logged, exitCode >> /\ mainPc' = "NewProxy"
    /\ UNCHANGED << runConnectorProtocol, prefillerURLPrefix, bootstrapEnv, flags,
                    signalled, shutdownPc, inflight, drain, requestVars >>

\* proxy.NewProxy(port, targetURL, connector, prefillerUseTLS, ...)
mainNewProxy ==
    /\ mainPc = "NewProxy"
    /\ runConnectorProtocol' = connectorRunner(flags.connector)
    /\ prefillerURLPrefix' = "http://"
    /\ mainPc' = "Start"
    /\ UNCHANGED << bootstrapEnv, flags, logged, exitCode, signalled, shutdownPc,
                    inflight, drain, requestVars >>

\* Start up to server.Serve: net.Listen fails and main logs the error and
\* returns, or the listener is bound and the shutdown goroutine started
Start ==
    /\ mainPc = "Start"
    /\ \/ logged' = "bind" /\ mainReturn /\ UNCHANGED shutdownPc
       \/ /\ mainPc' = "Serve"
          /\ shutdownPc' = "wait"
          /\ UNCHANGED << logged, exitCode >>
    /\ UNCHANGED << runConnectorProtocol, prefillerURLPrefix, bootstrapEnv, flags,
                    signalled, inflight, drain, requestVars >>

\* a termination signal: the context of signals.SetupSignalHandler is done
Signal ==
    /\ mainPc # "exit"
    /\ ~signalled
    /\ signalled' = TRUE
    /\ UNCHANGED << runConnectorProtocol, prefillerURLPrefix, bootstrapEnv, flags,
                    mainPc, logged, exitCode, shutdownPc, inflight, drain, requestVars >>

\* <-ctx.Done() returns and the goroutine calls server.Shutdown with the
\* drain timeout: the listener is closed
StartShutdown ==
    /\ mainPc # "exit"
    /\ shutdownPc = "wait"
    /\ signalled
    /\ shutdownPc' = "Shutdown"
    /\ drain' = 0
    /\ UNCHANGED << runConnectorProtocol, prefillerURLPrefix, bootstrapEnv, flags,
                    mainPc, logged, exitCode, signalled, inflight, requestVars >>

\* a second of the drain goes by
Tick ==
    /\ mainPc # "exit"
    /\ shutdownPc = "Shutdown"
    /\ drain < DrainSeconds
    /\ drain' = drain + 1
    /\ UNCHANGED << runConnectorProtocol, prefillerURLPrefix, bootstrapEnv, flags,
                    mainPc, logged, exitCode, signalled, shutdownPc, inflight, requestVars >>

\* server.Shutdown returns: no request is left, or the timeout is over and
\* the error is logged
StartShutdownReturns ==
    /\ mainPc # "exit"
    /\ shutdownPc = "Shutdown"
    /\ inflight = 0 \/ drain = DrainSeconds
    /\ shutdownPc' = "done"
    /\ logged' = IF inflight > 0 THEN "shutdown" ELSE logged
    /\ UNCHANGED << runConnectorProtocol, prefillerURLPrefix, bootstrapEnv, flags,
                    mainPc, exitCode, signalled, inflight, drain, requestVars >>

\* server.Serve returns http.ErrServerClosed as soon as Shutdown has been
\* called; Start returns nil and main returns
StartServeReturns ==
    /\ mainPc = "Serve"
    /\ shutdownPc \in { "Shutdown", "done" }
    /\ mainReturn
    /\ UNCHANGED << runConnectorProtocol, prefillerURLPrefix, bootstrapEnv, flags,
                    logged, signalled, shutdownPc, inflight, drain, requestVars >>

\* the server accepts a request and starts its handler
ServeAccept ==
    /\ mainPc = "Serve"
    /\ shutdownPc = "wait"
    /\ inflight < MaxInflight
    /\ inflight' = inflight + 1
    /\ UNCHANGED << runConnectorProtocol, prefillerURLPrefix, bootstrapEnv, flags,
                    mainPc, logged, exitCode, signalled, shutdownPc, drain, requestVars >>

\* a handler returns
ServeDone ==
    /\ mainPc # "exit"
    /\ inflight > 0
    /\ inflight' = inflight - 1
    /\ UNCHANGED << runConnectorProtocol, prefillerURLPrefix, bootstrapEnv, flags,
                    mainPc, logged, exitCode, signalled, shutdownPc, drain, requestVars >>

NextMain ==
    \/ mainFlags
    \/ mainNewProxy
    \/ Start
    \/ Signal
    \/ StartShutdown
    \/ Tick
    \/ StartShutdownReturns
    \/ StartServeReturns
    \/ ServeAccept
    \/ ServeDone

SpecMain == InitMain /\ [][NextMain]_vars

(***************************************************************************)
(* A server with LMCache or NIXL v1 whose clients may go away before they  *)
(* are answered.  A round trip whose context is done returns, so the two   *)
(* upstream steps are fair.                                                *)
(***************************************************************************)
InitCancel == NewProxy({ "runLMCacheProtocol", "runNIXLProtocolV1" }, { "" })

ArriveCancel ==
    Accept({ << "POST", ChatCompletionsPath >> }, { << >>, << TargetA >> }, { << >> },
           { b \in ClientBodies : b.kind = "json" /\ b.fmt = "compact" })

NextCancel ==
    \/ ArriveCancel
    \/ Cancel
    \/ ChatCompletionsHandler
    \/ runLMCacheProtocol
    \/ runLMCacheProtocolDecode
    \/ runNIXLProtocol
    \/ runNIXLProtocolDecode
    \/ PrefillerResponds
    \/ DecoderResponds
    \/ Finish

SpecCancel ==
    /\ InitCancel
    /\ [][NextCancel]_vars
    /\ WF_vars(PrefillerResponds)
    /\ WF_vars(DecoderResponds)

\* a server that runs SGLang and whose clients can go away
InitSGLangCancel == NewProxy(SGLangRunners, { "" })

\* the requests a server whose clients can go away takes
MaxAbandoned == 1

ArriveSGLangCancel ==
    /\ served < MaxAbandoned
    /\ Accept({ << "POST", ChatCompletionsPath >> }, { << TargetA >>, << << "8.8.8.8" >> >> },
              { << >> }, { b \in ClientBodies : b.kind = "json" /\ b.fmt = "compact" })

NextSGLangCancel ==
    \/ ArriveSGLangCancel
    \/ Cancel
    \/ ChatCompletionsHandler
    \/ runSGLangProtocol
    \/ sendSGLangDecode
    \/ sendSGLangPrefill
    \/ runSGLangProtocolReq
    \/ sendSGLangConcurrentRequestsDecode
    \/ sendSGLangConcurrentRequestsPrefill
    \/ sendSGLangPrefillDone
    \/ DecoderResponds
    \/ Finish

\* the scheduler runs every goroutine, the handler goes on, the decoder
\* proxy returns, and the transport ends a call whose context is done; no
\* prefiller has to answer
SpecSGLangCancel ==
    /\ InitSGLangCancel
    /\ [][NextSGLangCancel]_vars
    /\ WF_vars(sendSGLangPrefill)
    /\ WF_vars(sendSGLangConcurrentRequestsPrefill)
    /\ WF_vars(sendSGLangPrefillDone /\ Aborted(prefillReq))
    /\ WF_vars(sendSGLangDecode)
    /\ WF_vars(sendSGLangConcurrentRequestsDecode)
    /\ WF_vars(DecoderResponds)
    /\ WF_vars(Finish)

(***************************************************************************)
(* prefillerProxyHandler called from several requests at once.  The cache  *)
(* locks inside Get and inside Add and the handler holds no lock between   *)
(* the two, so a call is a Get, then an Add when the Get missed.           *)
(***************************************************************************)
\* the targets the next lookup of a goroutine can name.  The requests of
\* goroutine "a" go through the pool, one host after the other; those of
\* goroutine "b" all name the first host of the pool, as it is or as a URL.
LookupTargets(g) ==
    IF g = "a"
    THEN { [hostPort |-> << PoolHosts[requested + 1] >>, fresh |-> TRUE] : x \in
              { y \in { 1 } : requested < MaxHosts } }
    ELSE { [hostPort |-> h, fresh |-> FALSE] : h \in
              { y \in { << PoolHosts[1] >>, << "http://", PoolHosts[1] >> } :
                    repeats < MaxRepeats } }

\* the key has just been used
Touch(keys, key) == << key >> \o SelectSeq(keys, LAMBDA k : k # key)

\* proxy, exists := s.prefillerProxies.Get(hostPort) and the return on a hit
prefillerProxyHandlerGet(g) ==
    /\ lookups[g].pc = "idle"
    /\ \E t \in LookupTargets(g) :
          LET got == LruGet(prefillerProxies, t.hostPort) IN
          /\ prefillerProxies' = got.cache
          /\ used' = IF got.exists THEN Touch(used, t.hostPort) ELSE used
          /\ lookups' = [lookups EXCEPT ![g] =
                 [pc |-> IF got.exists THEN "return" ELSE "miss",
                  hostPort |-> t.hostPort, proxy |-> got.value, checked |-> FALSE]]
          /\ requested' = IF t.fresh THEN requested + 1 ELSE requested
          /\ repeats' = IF t.fresh THEN repeats ELSE repeats + 1
    /\ UNCHANGED << runConnectorProtocol, prefillerURLPrefix, bootstrapEnv, mainVars,
                    proxiesCreated, uuids, served, now, pc, req, prefillPodURL,
                    runnerCalls, frame, w, pw, prefillReq, decodeReq, prefillCalls,
                    decodeCalls, bg, rooms >>

\* the rest of the handler after a miss, up to s.prefillerProxies.Add
prefillerProxyHandlerAdd(g) ==
    /\ lookups[g].pc = "miss"
    /\ LET hostPort == lookups[g].hostPort
           h == prefillerProxyHandlerMiss(prefillerProxies, proxiesCreated,
                                          prefillerURLPrefix, hostPort)
       IN  /\ prefillerProxies' = h.cache
           /\ proxiesCreated' = h.created
           /\ used' = IF h.proxy # NilHandler
                      THEN Touch(used, CutPrefix(hostPort, "http://")) ELSE used
           /\ lookups' = [lookups EXCEPT ![g] =
                  [pc |-> "return", hostPort |-> hostPort, proxy |-> h.proxy,
                   checked |-> h.err = "nil"]]
    /\ UNCHANGED << runConnectorProtocol, prefillerURLPrefix, bootstrapEnv, mainVars,
                    requested, repeats, uuids, served, now, pc, req, prefillPodURL,
                    runnerCalls, frame, w, pw, prefillReq, decodeReq, prefillCalls,
                    decodeCalls, bg, rooms >>

\* the caller has the handler and the error
prefillerProxyHandlerReturn(g) ==
    /\ lookups[g].pc = "return"
    /\ lookups' = [lookups EXCEPT ![g] = NoLookup]
    /\ UNCHANGED << runConnectorProtocol, prefillerURLPrefix, bootstrapEnv, mainVars,
                    requested, repeats, used, prefillerProxies, proxiesCreated,
                    uuids, served, now, pc, req, prefillPodURL,
                    runnerCalls, frame, w, pw, prefillReq, decodeReq, prefillCalls,
                    decodeCalls, bg, rooms >>

NextCache ==
    \E g \in Goroutines :
        \/ prefillerProxyHandlerGet(g)
        \/ prefillerProxyHandlerAdd(g)
        \/ prefillerProxyHandlerReturn(g)

\* a server whose requests all call prefillerProxyHandler
SpecCache == NewProxy({ "runNIXLProtocolV1" }, { "" }) /\ [][NextCache]_vars

(***************************************************************************)
(* What the specification says of the prefill target extractor             *)
(***************************************************************************)
RECURSIVE DropEmpty(_)
DropEmpty(seq) ==
    IF seq = << >> THEN << >>
    ELSE IF Head(seq) = EmptyString THEN DropEmpty(Tail(seq))
    ELSE << Head(seq) >> \o DropEmpty(Tail(seq))

RECURSIVE Dedup(_, _)
Dedup(seq, seen) ==
    IF seq = << >> THEN << >>
    ELSE IF Head(seq) \in seen THEN Dedup(Tail(seq), seen)
    ELSE << Head(seq) >> \o Dedup(Tail(seq), seen \cup { Head(seq) })

RECURSIVE SplitAll(_)
SplitAll(values) ==
    IF values = << >> THEN << >>
    ELSE LET pieces == Split(Head(values), ",") IN
         [i \in 1..Len(pieces) |-> TrimSpace(pieces[i])] \o SplitAll(Tail(values))

\* every occurrence split on commas, trimmed, empty entries dropped,
\* duplicates dropped keeping the first
Candidates(values) == Dedup(DropEmpty(SplitAll(values)), {})

\* x-prefiller-host-port, and x-prefiller-url only when that one is absent
PrefillHeader(r) == IF r.hostPort # << >> THEN r.hostPort ELSE r.url

\* the chat-completions handler has run for the request at hand
Handled == Intercepted(req) /\ pc \notin { "idle", "mux" }

\* the request at hand is over: the handler returned, panicked, or took the
\* process down
Over == pc \in { "done", "panic", "crashed" }

\* the check prefillerProxyHandler makes of a target it builds a proxy for
TargetAllowed(target) ==
    LET targetIP == ParseIP(UrlHost(CutPrefix(target, "http://"))) IN
    targetIP # NilIP /\ isPrivateOrSpecialIP(targetIP)

SequentialRunners == { "runLMCacheProtocol", "runNIXLProtocolV1", "runNIXLProtocolV2" }

(***************************************************************************)
(* C1: in NIXL v1, NIXL v2 and LMCache the decoder is invoked only after   *)
(* the prefill call of the same request has returned with a 2xx status:    *)
(* never while the runner is before or inside the prefill call, never      *)
(* after another status.                                                   *)
(***************************************************************************)
C1_DecodeOnlyAfterPrefill2xx ==
    (runnerCalls > 0 /\ runConnectorProtocol \in SequentialRunners) =>
        /\ pc \in { "runner", "prefill", "prefilled" } => decodeCalls = 0
        /\ decodeCalls > 0 =>
              /\ prefillCalls = 1
              /\ pw.statusCode >= 200
              /\ pw.statusCode <= 299

C1_Witness ==
    /\ runConnectorProtocol = "runNIXLProtocolV1"
    /\ runnerCalls = 1
    /\ pc = "decode"
    /\ decodeCalls = 1
    /\ pw.statusCode = 299

(***************************************************************************)
(* C2: a request whose prefill target the validator does not allow issues  *)
(* no outbound request, neither to the prefiller nor to the decoder, and   *)
(* is answered 403 Forbidden with the fixed text body.  Stated for the     *)
(* requests whose body is a JSON object, so that nothing but the target    *)
(* stands between the request and the prefiller.                           *)
(***************************************************************************)
C2_DisallowedTargetForbidden ==
    (Over /\ runnerCalls > 0 /\ req.body.kind = "json"
       /\ ~TargetAllowed(prefillPodURL)) =>
        /\ prefillCalls = 0
        /\ decodeCalls = 0
        /\ w.status = 403
        /\ w.body = "text"

(***************************************************************************)
(* C3: when the prefiller answers outside 200..299 the client response     *)
(* carries exactly that status, and in NIXL v1 and LMCache an empty body:  *)
(* nothing of the prefiller's body reaches the client there.               *)
(***************************************************************************)
C3_PrefillStatusPropagated ==
    (pc = "done" /\ runConnectorProtocol \in SequentialRunners
       /\ pw.statusCode # 0 /\ (pw.statusCode < 200 \/ pw.statusCode > 299)) =>
        /\ w.status = pw.statusCode
        /\ runConnectorProtocol \in { "runLMCacheProtocol", "runNIXLProtocolV1" } =>
              w.body = "empty"

C3_Witness ==
    /\ pc = "done"
    /\ runConnectorProtocol = "runLMCacheProtocol"
    /\ pw.statusCode = 503
    /\ pw.buffer.kind = "json"
    /\ w.status = 503
    /\ w.body = "empty"

(***************************************************************************)
(* C4: when the prefill header is absent, or each of its values is empty   *)
(* or blank, the handler invokes the decoder proxy exactly once with the   *)
(* request as it came, never invokes the connector runner and writes       *)
(* nothing to the response itself.                                         *)
(***************************************************************************)
C4_BlankHeaderPassesThrough ==
    (Handled /\ Candidates(PrefillHeader(req)) = << >>) =>
        /\ runnerCalls = 0
        /\ decodeCalls = 1
        /\ decodeReq.body = req.body
        /\ pc = "decode" => w = NotWritten

(***************************************************************************)
(* C5: (sampling disabled) when there is at least one non-empty candidate  *)
(* the connector runner is invoked exactly once, with the first element    *)
(* of the candidate list, and the handler does not also pass the request   *)
(* through to the decoder.                                                 *)
(***************************************************************************)
C5_FirstCandidateSelected ==
    (Handled /\ Candidates(PrefillHeader(req)) # << >>) =>
        /\ runnerCalls = 1
        /\ prefillPodURL = Candidates(PrefillHeader(req))[1]
        /\ pc = "runner" => decodeCalls = 0

(***************************************************************************)
(* C6: (sampling enabled) the target passed to the connector is always a   *)
(* member of the trimmed, deduplicated candidate list, and the only member *)
(* when the list has one element.  The handler takes no sampling setting,  *)
(* so what it does is what it does with sampling enabled.                  *)
(***************************************************************************)
C6_SampledTargetIsCandidate ==
    (Handled /\ Candidates(PrefillHeader(req)) # << >>) =>
        \E i \in 1..Len(Candidates(PrefillHeader(req))) :
            prefillPodURL = Candidates(PrefillHeader(req))[i]

(***************************************************************************)
(* C7: the target is read from x-prefiller-host-port and from the legacy   *)
(* x-prefiller-url only when that header is absent; a request with either  *)
(* header alone is routed to the connector with that header's target.      *)
(***************************************************************************)
C7_HostPortHeaderFirst ==
    Handled =>
        /\ req.hostPort = << TargetB >> =>
              (runnerCalls = 1 /\ prefillPodURL = TargetB)
        /\ (req.hostPort = << >> /\ req.url = << TargetA >>) =>
              (runnerCalls = 1 /\ prefillPodURL = TargetA)

(***************************************************************************)
(* C8: every run of a connector returns with the client response writer in *)
(* a terminal state: the decoder's response, or an error status written    *)
(* with no decode request made.  No run returns having written nothing.    *)
(***************************************************************************)
C8_RunnerLeavesResponse ==
    (pc = "done" /\ runnerCalls > 0) =>
        /\ w.status # 0
        /\ \/ decodeCalls = 1
           \/ decodeCalls = 0 /\ (w.status < 200 \/ w.status > 299)

(***************************************************************************)
(* C9: an invalid JSON document - the client body in any connector, the    *)
(* prefiller's 2xx body in NIXL v1 - is answered 400 with a JSON error     *)
(* body, and no outbound request follows the failure.                      *)
(***************************************************************************)
C9_InvalidJsonIs400JsonError ==
    /\ (Over /\ runnerCalls > 0 /\ req.body.kind = "invalid") =>
          /\ w.status = StatusBadRequest
          /\ w.body = "json_error"
          /\ prefillCalls = 0
          /\ decodeCalls = 0
    /\ (Over /\ runConnectorProtocol = "runNIXLProtocolV1"
          /\ pw.statusCode >= 200 /\ pw.statusCode <= 299
          /\ pw.buffer.kind = "invalid") =>
          /\ w.status = StatusBadRequest
          /\ w.body = "json_error"
          /\ decodeCalls = 0

(***************************************************************************)
(* C10: in NIXL v1, NIXL v2 and LMCache, when the prefiller cannot be      *)
(* reached or no handler for the target can be obtained, the client        *)
(* receives 502 Bad Gateway and the decoder is not called.                 *)
(***************************************************************************)
C10_UnreachablePrefillerIs502 ==
    (Over /\ runnerCalls > 0 /\ runConnectorProtocol \in SequentialRunners
       /\ req.body.kind = "json") =>
        /\ prefillCalls = 0 => (w.status = StatusBadGateway /\ decodeCalls = 0)
        /\ pw.statusCode = StatusBadGateway =>
              (w.status = StatusBadGateway /\ decodeCalls = 0)

(***************************************************************************)
(* C11: the core never retries.  For every client request at most one      *)
(* request goes to the prefiller and at most one to the decoder; once the  *)
(* prefiller has failed (a status outside 200..299, or the 502 of a        *)
(* transport failure) no request goes to the decoder, and no request goes  *)
(* to the prefiller once the decoder has been called.                      *)
(***************************************************************************)
C11_NoRetry ==
    /\ prefillCalls <= 1
    /\ decodeCalls <= 1
    /\ (runnerCalls > 0 /\ pw.statusCode # 0
          /\ (pw.statusCode < 200 \/ pw.statusCode > 299)) => decodeCalls = 0
    /\ (runnerCalls > 0 /\ decodeCalls = 1) => prefillCalls = 1

C11_Witness ==
    /\ pc = "done"
    /\ runConnectorProtocol = "runNIXLProtocolV1"
    /\ pw.statusCode = StatusBadGateway
    /\ pw.buffer = NoBytes
    /\ prefillCalls = 1
    /\ decodeCalls = 0
    /\ w.status = StatusBadGateway

(***************************************************************************)
(* C12: in NIXL v2 the body that goes to the decoder is the client's body  *)
(* byte for byte, layout and stream value included, while the copy that    *)
(* went to the prefiller carries kv_transfer_params.do_remote_prefill =    *)
(* true.                                                                   *)
(***************************************************************************)
C12_V2DecodeBodyIsOriginal ==
    (runConnectorProtocol = "runNIXLProtocolV2" /\ runnerCalls > 0 /\ decodeCalls = 1) =>
        /\ decodeReq.body = req.body
        /\ MapGet(prefillReq.body.m, RequestFieldKVTransferParams) = "object"
        /\ MapGet(prefillReq.body.kv, RequestFieldKVDoRemotePrefill) = "true"

C12_Witness ==
    /\ runConnectorProtocol = "runNIXLProtocolV2"
    /\ pc = "decode"
    /\ decodeCalls = 1
    /\ req.body.fmt = "pretty"
    /\ MapGet(req.body.m, RequestFieldStream) = "false"
    /\ MapGet(req.body.kv, RequestFieldKVDoRemotePrefill) = "false"
    /\ MapGet(prefillReq.body.kv, RequestFieldKVDoRemotePrefill) = "true"
    /\ decodeReq.body = req.body

(***************************************************************************)
(* C13: in NIXL v1, after a 2xx prefiller response whose                   *)
(* kv_transfer_params holds remote_block_ids, remote_engine_id,            *)
(* remote_host and remote_port, the kv_transfer_params of the decode       *)
(* request is exactly do_remote_prefill = true with those four fields at   *)
(* the values the prefiller returned, without do_remote_decode.            *)
(***************************************************************************)
C13_V1DecodeKvParams ==
    (runConnectorProtocol = "runNIXLProtocolV1" /\ runnerCalls > 0 /\ decodeCalls = 1
       /\ KvFields \subseteq DOMAIN pw.buffer.kv) =>
        /\ MapGet(decodeReq.body.m, RequestFieldKVTransferParams) = "object"
        /\ DOMAIN decodeReq.body.kv = { RequestFieldKVDoRemotePrefill } \cup KvFields
        /\ decodeReq.body.kv[RequestFieldKVDoRemotePrefill] = "true"
        /\ \A k \in KvFields : decodeReq.body.kv[k] = pw.buffer.kv[k]

C13_Witness ==
    /\ runConnectorProtocol = "runNIXLProtocolV1"
    /\ pc = "decode"
    /\ decodeCalls = 1
    /\ pw.buffer.kv = FullKv
    /\ MapGet(prefillReq.body.kv, RequestFieldKVDoRemoteDecode) = "true"
    /\ MapGet(decodeReq.body.kv, RequestFieldKVRemoteHost) = "h"

(***************************************************************************)
(* C14: in NIXL v1 the decode body has stream and stream_options exactly   *)
(* as the client sent them: each key is there if and only if the client    *)
(* body had it, with the client's value; the stream = false of the prefill *)
(* does not reach the decoder.                                             *)
(***************************************************************************)
C14_V1DecodeStreamRestored ==
    (runConnectorProtocol = "runNIXLProtocolV1" /\ runnerCalls > 0 /\ decodeCalls = 1) =>
        \A k \in { RequestFieldStream, RequestFieldStreamOptions } :
            /\ k \in DOMAIN decodeReq.body.m <=> k \in DOMAIN req.body.m
            /\ k \in DOMAIN req.body.m => decodeReq.body.m[k] = req.body.m[k]

C14_Witness ==
    /\ runConnectorProtocol = "runNIXLProtocolV1"
    /\ pc = "decode"
    /\ decodeCalls = 1
    /\ RequestFieldStream \notin DOMAIN req.body.m
    /\ MapGet(prefillReq.body.m, RequestFieldStream) = "false"
    /\ RequestFieldStream \notin DOMAIN decodeReq.body.m

(***************************************************************************)
(* C15: in LMCache the body sent to the prefiller has max_tokens = 1 and   *)
(* max_completion_tokens = 1, whatever the client set.                     *)
(***************************************************************************)
C15_LMCachePrefillClamped ==
    (runConnectorProtocol = "runLMCacheProtocol" /\ prefillCalls = 1) =>
        /\ prefillReq.body.kind = "json"
        /\ MapGet(prefillReq.body.m, RequestFieldMaxTokens) = "1"
        /\ MapGet(prefillReq.body.m, RequestFieldMaxCompletionTokens) = "1"

C15_Witness ==
    /\ runConnectorProtocol = "runLMCacheProtocol"
    /\ pc = "prefill"
    /\ prefillCalls = 1
    /\ MapGet(req.body.m, RequestFieldMaxCompletionTokens) = "7"
    /\ RequestFieldMaxTokens \notin DOMAIN req.body.m
    /\ MapGet(prefillReq.body.m, RequestFieldMaxTokens) = "1"
    /\ MapGet(prefillReq.body.m, RequestFieldMaxCompletionTokens) = "1"

(***************************************************************************)
(* C16: in LMCache, after a 2xx prefiller response, the body that goes to  *)
(* the decoder is the client's body unchanged, with the client's own       *)
(* max_tokens and max_completion_tokens; the prefiller's body is dropped   *)
(* and what the client receives is what the decoder proxy wrote.           *)
(***************************************************************************)
C16_LMCacheDecodeBodyIsOriginal ==
    (runConnectorProtocol = "runLMCacheProtocol" /\ runnerCalls > 0 /\ decodeCalls = 1) =>
        /\ decodeReq.body = req.body
        /\ pc = "decode" => w = NotWritten
        /\ pc = "done" =>
              /\ w.writes = 1
              /\ w.body = "decoder" \/ (w.body = "empty" /\ w.status = StatusBadGateway)

C16_Witness ==
    /\ runConnectorProtocol = "runLMCacheProtocol"
    /\ pc = "done"
    /\ decodeCalls = 1
    /\ pw.statusCode = 200
    /\ pw.buffer.kind = "json"
    /\ MapGet(req.body.m, RequestFieldMaxTokens) = "500"
    /\ MapGet(decodeReq.body.m, RequestFieldMaxTokens) = "500"
    /\ w.body = "decoder"

(***************************************************************************)
(* C17: in SGLang the prefill request has gone to the prefiller by the     *)
(* time the decode request goes to the decoder, however the background     *)
(* prefill task and the synchronous decode are scheduled.                  *)
(***************************************************************************)
C17_PrefillIssuedBeforeDecode ==
    (runConnectorProtocol \in SGLangRunners /\ runnerCalls > 0 /\ decodeCalls = 1) =>
        prefillCalls = 1

(***************************************************************************)
(* C18: in SGLang the prefiller and the decoder each receive the complete  *)
(* rewritten body, the same for both, with bootstrap_room, bootstrap_host  *)
(* and bootstrap_port in it, under every interleaving of the background    *)
(* prefill and the synchronous decode; neither receives a body that the    *)
(* other has consumed.                                                     *)
(***************************************************************************)
C18_SameCompleteBody ==
    (runConnectorProtocol \in SGLangRunners /\ frame.roomID # 0) =>
        /\ { requestFieldBootstrapRoom, requestFieldBootstrapHost,
             requestFieldBootstrapPort } \subseteq DOMAIN frame.m
        /\ frame.m[requestFieldBootstrapRoom] = ToString(frame.roomID)
        /\ prefillCalls = 1 => prefillReq.body = Marshal(frame.m, frame.kv)
        /\ (runnerCalls > 0 /\ decodeCalls = 1) =>
              decodeReq.body = Marshal(frame.m, frame.kv)

(***************************************************************************)
(* C19: in SGLang every bootstrap_room is a positive integer, and two      *)
(* requests the server handles are never given the same one.               *)
(***************************************************************************)
C19_RoomsPositiveAndDistinct ==
    \A i \in 1..Len(rooms) :
        /\ rooms[i] > 0
        /\ \A j \in 1..Len(rooms) : i # j => rooms[i] # rooms[j]

\* the target without its port: a trailing :port is dropped, nothing else
StripPort(target) ==
    IF target # << >> /\ target[Len(target)] = ":8000"
    THEN SubSeq(target, 1, Len(target) - 1)
    ELSE target

(***************************************************************************)
(* C20: in SGLang the injected bootstrap_host is the prefill target with   *)
(* its port, and nothing else, stripped; bootstrap_port is the integer in  *)
(* SGLANG_BOOTSTRAP_PORT when that is set and numeric, and 8998 when it is *)
(* unset, empty or not numeric.                                            *)
(***************************************************************************)
C20_BootstrapHostAndPort ==
    (runConnectorProtocol \in SGLangRunners /\ frame.roomID # 0) =>
        /\ MapGet(frame.m, requestFieldBootstrapHost) = ToString(StripPort(prefillPodURL))
        /\ MapGet(frame.m, requestFieldBootstrapPort) =
              (IF bootstrapEnv = "7000" THEN "7000" ELSE "8998")

(***************************************************************************)
(* C21: under every sequence and interleaving of concurrent lookups and    *)
(* insertions the handler cache holds at most 16 entries and at most one   *)
(* entry per key, and what it holds are the keys used last: adding a 17th  *)
(* target evicts the entry whose last use, a hit or an insertion, is the   *)
(* oldest.                                                                 *)
(***************************************************************************)
C21_CacheBoundedAndLRU ==
    /\ Len(prefillerProxies) <= 16
    /\ \A i, j \in 1..Len(prefillerProxies) :
          prefillerProxies[i].key = prefillerProxies[j].key => i = j
    /\ { prefillerProxies[i].key : i \in 1..Len(prefillerProxies) } =
          { used[i] : i \in 1..(IF Len(used) < 16 THEN Len(used) ELSE 16) }

\* the first host was looked up again before the 17th was added: the second
\* host is the one that went
C21_Witness ==
    /\ Len(prefillerProxies) = 16
    /\ Len(used) = 17
    /\ CacheIndex(prefillerProxies, << PoolHosts[17] >>) # 0
    /\ CacheIndex(prefillerProxies, << PoolHosts[1] >>) # 0
    /\ CacheIndex(prefillerProxies, << PoolHosts[2] >>) = 0

(***************************************************************************)
(* C22: every outbound request carries the context of the client request.  *)
(* When the client cancels while the prefill call is in flight the call is *)
(* aborted and no decode request follows for that request; when it cancels *)
(* while the decode call is in flight that call is aborted.  An aborted    *)
(* call ends with the 502 of the proxy's error handler or with the panic   *)
(* that cuts the response short, never with the upstream's answer.         *)
(***************************************************************************)
C22_CancellationAborts ==
    /\ [](/\ prefillCalls > 0 => prefillReq.ctx = "request"
          /\ decodeCalls > 0 => decodeReq.ctx = "request"
          /\ req.cancelledAt = "prefill" =>
                /\ decodeCalls = 0
                /\ pc # "prefill" =>
                      \/ pc = "panic"
                      \/ pw = [statusCode |-> 502, buffer |-> NoBytes]
          /\ req.cancelledAt = "decode" =>
                \/ pc \in { "decode", "panic" }
                \/ (w.status = 502 /\ w.body = "empty"))
    /\ (req.cancelledAt = "prefill" /\ pc = "prefill") ~> (pc # "prefill")
    /\ (req.cancelledAt = "decode" /\ pc = "decode") ~> (pc # "decode")

C22_Witness ==
    /\ req.cancelledAt = "prefill"
    /\ pc = "done"
    /\ prefillCalls = 1
    /\ pw.statusCode = 502
    /\ w.status = 502
    /\ decodeCalls = 0

(***************************************************************************)
(* C23: once the cancellation token has fired the server takes no new      *)
(* request and lets the requests in flight run to completion within the    *)
(* 60 second drain: while a request is still served inside the drain       *)
(* window Start has not returned and the process has not exited.           *)
(***************************************************************************)
C23_InFlightSurviveDrain ==
    (shutdownPc = "Shutdown" /\ inflight > 0 /\ drain < 60) => mainPc # "exit"

(***************************************************************************)
(* C24: each of the connector values nixl, nixlv2, lmcache and sglang is   *)
(* accepted at startup and wires the runner of its protocol: NIXL v1,      *)
(* NIXL v2, LMCache and SGLang.                                            *)
(***************************************************************************)
C24_FourConnectorsAccepted ==
    flags.connector \in { "nixl", "nixlv2", "lmcache", "sglang" } =>
        /\ logged # "connector"
        /\ mainPc \in { "Start", "Serve" } =>
              runConnectorProtocol =
                  (CASE flags.connector = "nixl" -> "runNIXLProtocolV1"
                     [] flags.connector = "nixlv2" -> "runNIXLProtocolV2"
                     [] flags.connector = "lmcache" -> "runLMCacheProtocol"
                     [] flags.connector = "sglang" -> "runSGLangProtocol")

(***************************************************************************)
(* C25: the process exits with status 0 only after a clean shutdown.  A    *)
(* startup failure, the listener that cannot be bound or a connector value *)
(* that is not recognised, ends the process with another status, and no    *)
(* request was served.                                                     *)
(***************************************************************************)
C25_StartupFailureIsFatal ==
    mainPc = "exit" =>
        /\ logged \in { "connector", "bind" } => (exitCode # 0 /\ inflight = 0)
        /\ exitCode = 0 => (signalled /\ logged \notin { "connector", "ssrf", "bind" })

(***************************************************************************)
(* C26: the static validator accepts a target if and only if, once a       *)
(* leading http:// or https:// and the :port suffix are stripped, the host *)
(* is a literal IPv4 address inside one of the private or special-purpose  *)
(* ranges.  A private address given as host:port is accepted; host names,  *)
(* IPv6 literals and public addresses are rejected.  A target is accepted  *)
(* when the runner is handed a proxy for it, and rejected when it is not.  *)
(***************************************************************************)
StaticValidatorAllows(target) ==
    LET host == StripPort(CutPrefix(CutPrefix(target, "http://"), "https://"))
        ip == ParseIP(host)
    IN  Len(ip) = 4 /\ \E i \in 1..Len(cidrStrings) : CidrContains(cidrStrings[i], ip)

C26_StaticValidatorAcceptance ==
    runnerCalls > 0 =>
        /\ pc = "prefill" => StaticValidatorAllows(prefillPodURL)
        /\ pc = "panic" => ~StaticValidatorAllows(prefillPodURL)

(***************************************************************************)
(* C27: a request is handled by the chat-completions handler if and only   *)
(* if it is a POST on exactly /v1/chat/completions or /v1/completions.     *)
(* Every other request goes to the decoder as it came: no target is        *)
(* extracted and no connector runs, even when it carries a prefill header. *)
(***************************************************************************)
C27_OnlyTwoPostRoutesHandled ==
    LET matches == /\ req.method = "POST"
                   /\ req.path \in { "/v1/chat/completions", "/v1/completions" }
    IN  pc \notin { "idle", "mux" } =>
          /\ ~matches =>
                /\ runnerCalls = 0
                /\ prefillPodURL = EmptyString
                /\ prefillCalls = 0
                /\ decodeCalls = 1
                /\ decodeReq.body = req.body
          /\ (matches /\ HeaderGet(req.url) # EmptyString) => runnerCalls = 1

C27_Witness ==
    /\ pc = "decode"
    /\ req.method = "GET"
    /\ req.path = CompletionsPath
    /\ HeaderGet(req.url) = TargetA
    /\ decodeCalls = 1

(***************************************************************************)
(* C28: on every request that names a prefill target the target is checked *)
(* before the prefiller handler is used: a handler found in the cache      *)
(* never lets a request go without the check.                              *)
(***************************************************************************)
C28_CheckedBeforeHandlerUsed ==
    \A g \in Goroutines :
        (lookups[g].pc = "return" /\ lookups[g].proxy # NilHandler) => lookups[g].checked

(***************************************************************************)
(* C29: a request to a target whose handler an earlier request created,    *)
(* and that was not evicted since, gets that handler from the cache and    *)
(* builds no new proxy, however the target is spelled: a lookup misses     *)
(* only when the cache holds nothing under the key the insertion uses.     *)
(***************************************************************************)
C29_LookupKeyIsInsertionKey ==
    [][\A g \in Goroutines :
          (lookups[g].pc = "idle" /\ lookups'[g].pc = "miss") =>
              CacheIndex(prefillerProxies, CutPrefix(lookups'[g].hostPort, "http://")) = 0]_vars

(***************************************************************************)
(* C30: once a key is in the handler cache the handler it maps to stays    *)
(* the same until the entry is evicted: no step replaces the handler       *)
(* stored under a key the cache holds.                                     *)
(***************************************************************************)
C30_EntriesImmutable ==
    [][\A i \in 1..Len(prefillerProxies) : \A j \in 1..Len(prefillerProxies') :
          prefillerProxies[i].key = prefillerProxies'[j].key =>
              prefillerProxies[i].value = prefillerProxies'[j].value]_vars


(***************************************************************************)
(* C31: requests for the same prefill target that run at the same time all *)
(* get the same handler, and one reverse proxy only is built for the       *)
(* target: of two calls of prefillerProxyHandler that are returning for    *)
(* the same target, at most one has built a proxy, and both return the     *)
(* same one.                                                               *)
(***************************************************************************)
C31_OneProxyPerTarget ==
    \A g, h \in Goroutines :
        (/\ g # h
         /\ lookups[g].pc = "return"
         /\ lookups[h].pc = "return"
         /\ lookups[g].hostPort = lookups[h].hostPort) =>
            /\ lookups[g].proxy = lookups[h].proxy
            /\ ~(lookups[g].checked /\ lookups[h].checked)


(***************************************************************************)
(* C32: in NIXL v1 the body sent to the prefiller has stream = false, no   *)
(* stream_options key, and kv_transfer_params = {do_remote_decode: true}   *)
(* and nothing else, whatever the client put under those three keys.       *)
(***************************************************************************)
C32_V1PrefillBody ==
    (runConnectorProtocol = "runNIXLProtocolV1" /\ prefillCalls > 0) =>
        /\ prefillReq.body.kind = "json"
        /\ MapGet(prefillReq.body.m, RequestFieldStream) = "false"
        /\ RequestFieldStreamOptions \notin DOMAIN prefillReq.body.m
        /\ MapGet(prefillReq.body.m, RequestFieldKVTransferParams) = "object"
        /\ prefillReq.body.kv = [k \in { RequestFieldKVDoRemoteDecode } |-> "true"]

\* the client asked for a stream with options
C32_Witness ==
    /\ runConnectorProtocol = "runNIXLProtocolV1"
    /\ pc = "prefill"
    /\ MapGet(req.body.m, RequestFieldStream) = "true"
    /\ RequestFieldStreamOptions \in DOMAIN req.body.m
    /\ prefillCalls = 1
    /\ MapGet(prefillReq.body.m, RequestFieldStream) = "false"


(***************************************************************************)
(* C33: in NIXL v1 a prefiller response with a 2xx status and a valid JSON *)
(* body from which some of remote_block_ids, remote_engine_id, remote_host *)
(* and remote_port are missing is not fatal: whichever of the four are     *)
(* missing, the run goes on and the decode request is sent to the decoder. *)
(***************************************************************************)
C33_MissingFieldsNotFatal ==
    (/\ runConnectorProtocol = "runNIXLProtocolV1"
     /\ pc = "done"
     /\ prefillCalls = 1
     /\ ~PrefillFailed(pw.statusCode)
     /\ pw.buffer.kind = "json"
     /\ ~(KvFields \subseteq DOMAIN pw.buffer.kv)) =>
        decodeCalls = 1


(***************************************************************************)
(* C34: every top-level field of the client body that the running protocol *)
(* does not name (NIXL v1 names stream, stream_options and                 *)
(* kv_transfer_params; LMCache max_tokens and max_completion_tokens;       *)
(* SGLang the bootstrap fields) is in every prefill and every decode body  *)
(* built from it, with the value the client gave it.                       *)
(***************************************************************************)
ProtocolFields ==
    CASE runConnectorProtocol = "runNIXLProtocolV1" ->
             { RequestFieldStream, RequestFieldStreamOptions, RequestFieldKVTransferParams }
      [] runConnectorProtocol = "runLMCacheProtocol" ->
             { RequestFieldMaxTokens, RequestFieldMaxCompletionTokens }
      [] runConnectorProtocol \in SGLangRunners ->
             { requestFieldBootstrapHost, requestFieldBootstrapPort,
               requestFieldBootstrapRoom }
      [] OTHER -> { }

C34_UnrelatedFieldsPreserved ==
    (/\ runConnectorProtocol \in
            { "runNIXLProtocolV1", "runLMCacheProtocol" } \cup SGLangRunners
     /\ runnerCalls > 0
     /\ req.body.kind = "json") =>
        \A k \in (DOMAIN req.body.m) \ ProtocolFields :
            /\ prefillCalls > 0 =>
                  (k \in DOMAIN prefillReq.body.m /\ prefillReq.body.m[k] = req.body.m[k])
            /\ decodeCalls > 0 =>
                  (k \in DOMAIN decodeReq.body.m /\ decodeReq.body.m[k] = req.body.m[k])


(***************************************************************************)
(* C35: in SGLang the outcome of the background prefill, a failed handler  *)
(* lookup, a transport failure or any status code, never changes what the  *)
(* client receives: the run is never cut short by the prefill task, and    *)
(* when it is over the decode request was sent and the client has the      *)
(* response of the decoder.  The handler does not wait for the task.       *)
(***************************************************************************)
C35_PrefillOutcomeInvisible ==
    (runConnectorProtocol \in SGLangRunners /\ runnerCalls > 0) =>
        /\ pc # "crashed"
        /\ (pc = "done" /\ frame.roomID # 0) => (decodeCalls = 1 /\ w.status # 0)


(***************************************************************************)
(* C36: in SGLang the background prefill task does not outlive its request *)
(* for ever.  Its outbound call carries the context of the parent request; *)
(* a call that ends once that context is done ends given up, with the 502  *)
(* of the proxy or with the task itself, never with the prefiller's        *)
(* answer; and once the context is done the task ends.                     *)
(***************************************************************************)
C36_PrefillTaskEnds ==
    /\ [](bg = "prefill" => prefillReq.ctx = "request")
    /\ [][(bg = "prefill" /\ Aborted(prefillReq) /\ bg' = "done") =>
             pw' = [statusCode |-> StatusBadGateway, buffer |-> NoBytes]]_vars
    /\ (bg \in { "spawned", "prefill" } /\ (req.ctxDone \/ pc \in { "done", "panic", "idle" }))
          ~> (bg = "done" \/ pc = "crashed")

\* the client went away during the decode call and the prefill call, still
\* in flight, was given up
C36_Witness ==
    /\ runConnectorProtocol = "runSGLangProtocol"
    /\ req.cancelledAt = "decode"
    /\ prefillCalls = 1
    /\ bg = "done"
    /\ pw = [statusCode |-> StatusBadGateway, buffer |-> NoBytes]


(***************************************************************************)
(* C37: in the NIXL connectors the prefill request and the decode request  *)
(* built for one client request carry the same x-request-id, generated for *)
(* that request, and the requests built for two client requests carry      *)
(* different ones: an id that is handed out is one no earlier request had. *)
(***************************************************************************)
NIXLRunners == { "runNIXLProtocolV1", "runNIXLProtocolV2" }

C37_RequestIDShared ==
    /\ []((runConnectorProtocol \in NIXLRunners /\ runnerCalls > 0) =>
            /\ prefillCalls > 0 => prefillReq.requestID \in 1..uuids
            /\ decodeCalls > 0 =>
                  (prefillCalls > 0 /\ decodeReq.requestID = prefillReq.requestID))
    /\ [][(runConnectorProtocol \in NIXLRunners /\ prefillCalls' > prefillCalls) =>
             prefillReq'.requestID > uuids]_vars

\* the second request of a NIXL v1 server has reached its decode call
C37_Witness ==
    /\ runConnectorProtocol = "runNIXLProtocolV1"
    /\ pc = "decode"
    /\ served = 2
    /\ uuids = 2
    /\ prefillReq.requestID = 2
    /\ decodeReq.requestID = 2


(***************************************************************************)
(* C38: for every request and every connector the status of the client     *)
(* response is written at most once: a connector that has written an error *)
(* status, or passed the prefiller's status on, does not go on to invoke   *)
(* the decoder proxy, and nothing writes a second status.                  *)
(***************************************************************************)
C38_StatusWrittenOnce ==
    /\ [](w.writes <= 1)
    /\ [][(runnerCalls > 0 /\ decodeCalls' > decodeCalls) => w.writes = 0]_vars
    /\ [][(runnerCalls > 0 /\ w.writes > 0) => (w' = w \/ w' = NotWritten)]_vars

\* NIXL v1 passed the 503 of the prefiller on and returned
C38_Witness ==
    /\ runConnectorProtocol = "runNIXLProtocolV1"
    /\ pc = "done"
    /\ prefillCalls = 1
    /\ pw.statusCode = 503
    /\ w = [status |-> 503, body |-> "empty", writes |-> 1]
    /\ decodeCalls = 0


(***************************************************************************)
(* C39: prefillerProxyHandler returns a handler whenever it returns no     *)
(* error: a URL that does not parse, a host that is not an IP literal and  *)
(* an address outside the allowed ranges are each reported with an error,  *)
(* so the error branch of the caller is taken on every rejection and no    *)
(* connector invokes a nil handler.                                        *)
(***************************************************************************)
C39_NoNilHandlerWithoutError ==
    runnerCalls > 0 =>
        /\ LET h == prefillerProxyHandler(prefillerProxies, proxiesCreated,
                                          prefillerURLPrefix, prefillPodURL)
           IN  h.err = "nil" => h.proxy # NilHandler
        /\ pc # "panic"

====
